---- MODULE Spec2Model ----
(***************************************************************************)
(* Migration pipeline core of auth-gateway's user migration tool:          *)
(*   scripts/migration/lib/deduplicator.py  UserDeduplicator               *)
(*   scripts/migration/lib/importer.py      AuthGatewayImporter            *)
(*   scripts/migration/lib/verifier.py      MigrationVerifier              *)
(*   scripts/migration/migrate.py           migrate                        *)
(* Strings are sequences of one-character strings so that lower() and      *)
(* strip() are computed, not assumed.  Python's None is the one-element    *)
(* sequence <<"None">> for optional strings and NoTimestamp for created_at.*)
(***************************************************************************)
EXTENDS Integers, Sequences, FiniteSets, TLC

\* ------------------------------------------------------------------ bounds
\* Longest source stream handed to deduplicate.
MaxUsers == 3

\* Longest list handed to import_users.
MaxImport == 5

\* Largest value of the `workers` setting.
MaxWorkers == 2

\* import_users cuts batches of 50 records (importer.py line 64); the model
\* keeps the slicing and scales the size down so that several batches exist.
batch_size == 2

\* Rows of the source users table the verifier counts and samples.
MaxSource == 2

\* Entries added to a VerificationReport by direct calls.
MaxEntries == 3

\* ------------------------------------------------------- python primitives
None == <<"None">>

NoTimestamp == 0

\* Truth value of an Optional[str]: None and "" are falsy.
Truthy(s) == s # None /\ Len(s) > 0

\* Lower case of one character of the model's alphabet (a A b u U 7 space).
LowerChar(c) == IF c = "A" THEN "a" ELSE IF c = "U" THEN "u" ELSE c

\* str.lower()
Lower(s) == [i \in 1..Len(s) |-> LowerChar(s[i])]

IsSpace(c) == c = " "

RECURSIVE LStrip(_)
LStrip(s) == IF Len(s) > 0 /\ IsSpace(Head(s)) THEN LStrip(Tail(s)) ELSE s

RECURSIVE RStrip(_)
RStrip(s) ==
    IF Len(s) > 0 /\ IsSpace(s[Len(s)]) THEN RStrip(SubSeq(s, 1, Len(s) - 1)) ELSE s

\* str.strip()
Strip(s) == RStrip(LStrip(s))

\* Mutant: the second operand wins when it is truthy.
PyOr_second(a, b) == IF Truthy(b) THEN b ELSE a

\* Python's `a or b` on Optional[str] operands.
PyOr(a, b) == IF Truthy(a) THEN a ELSE b

\* ------------------------------------------------------------ configuration
\* DedupStrategy enum values.
DedupStrategy == {"none", "keep_latest", "keep_first", "error"}

\* Key selectors _extract_key knows, and one it does not ("full_name").
SupportedKeys == {"email", "phone", "username", "email_or_phone", "username_or_email"}

DedupKeys == SupportedKeys \cup {"full_name"}

\* --------------------------------------------------------------- SourceUser
\* Field values a source row can carry (without the id, which is the row's
\* position in the stream).
SourceRows ==
    { [email |-> <<"a">>,      username |-> None,    phone |-> None,          created_at |-> 1],
      [email |-> <<"A", " ">>, username |-> <<"u">>, phone |-> <<"7">>,      created_at |-> 2],
      [email |-> <<"a">>,      username |-> <<"U">>, phone |-> <<" ", "7">>, created_at |-> NoTimestamp],
      [email |-> <<" ">>,      username |-> <<>>,    phone |-> None,          created_at |-> 1],
      [email |-> None,         username |-> None,    phone |-> <<"7">>,      created_at |-> 2],
      [email |-> None,         username |-> <<" ">>, phone |-> <<" ">>,      created_at |-> NoTimestamp],
      [email |-> <<"b">>,      username |-> <<"u">>, phone |-> None,          created_at |-> 2],
      [email |-> None,         username |-> None,    phone |-> None,          created_at |-> 1],
      [email |-> None,         username |-> None,    phone |-> <<"7", "a">>, created_at |-> 1],
      [email |-> None,         username |-> None,    phone |-> <<"7", "A">>, created_at |-> 2] }

SourceUser(id, row) ==
    [id |-> id, email |-> row.email, username |-> row.username,
     phone |-> row.phone, created_at |-> row.created_at]

DedupStats == [total |-> 0, unique |-> 0, duplicates |-> 0, skipped_no_key |-> 0]

\* Mutant: the two records are stored the other way round.
ConflictRecord_swapped(key, existing, duplicate) ==
    [key |-> key, existing |-> duplicate, duplicate |-> existing]

ConflictRecord(key, existing, duplicate) ==
    [key |-> key, existing |-> existing, duplicate |-> duplicate]

\* ------------------------------------------------------------------- state
VARIABLES
    config,          \* DedupConfig: [key, strategy]
    users_list,      \* records pulled from the source stream so far, in order
    seen,            \* deduplicate: dict key -> canonical SourceUser
    unique_users,    \* deduplicate: output list under construction
    dedup_stats,     \* UserDeduplicator.stats
    conflicts,       \* UserDeduplicator.conflicts
    dedup_pc,        \* "running" | "returned" | "raised"
    deduplicated,    \* list returned by deduplicate (meaningful once "returned")
    dedup_error      \* DuplicateUserError payload (meaningful once "raised")

dedup_vars == <<config, users_list, seen, unique_users, dedup_stats, conflicts,
                dedup_pc, deduplicated, dedup_error>>

VARIABLES
    client,          \* AuthGatewayImporter._client is set (inside `async with`)
    workers,         \* AuthGatewayImporter.workers
    users,           \* argument of import_users
    import_pc,       \* "idle" | "called" | "gathering" | "returned" | "raised"
    semaphore,       \* value of asyncio.Semaphore(self.workers)
    task_pc,         \* per batch task: "pending" | "posting" | "done" | "raised"
    requests,        \* per batch: number of POSTs the target has received
    replies,         \* per batch: what the transport answered (NoReply before)
    batch_results,   \* per batch: list returned by import_batch
    import_stats,    \* AuthGatewayImporter.stats
    results          \* list returned by import_users

import_vars == <<client, workers, users, import_pc, semaphore, task_pc, requests,
                 replies, batch_results, import_stats, results>>

VARIABLES
    running,         \* batch task the event loop is executing, 0 when it is idle
    writes           \* per batch task past its POST: counter writes still to do, and done

loop_vars == <<running, writes>>

VARIABLES
    verifier_client, \* MigrationVerifier._http_client and _conn are set
    source_rows,     \* the source users table: list of [id, email]
    verify_pc,       \* "idle" | "called" | "counted" | "sampling" | "returned" | "raised"
    count_replies,   \* answers of the target to the two count calls
    sample_users,    \* rows _get_sample_users returned
    lookups,         \* answers of the target to the lookups made so far, in order
    report           \* VerificationReport: [checks, missing_users, mismatches]

verify_vars == <<verifier_client, source_rows, verify_pc, count_replies,
                 sample_users, lookups, report>>

VARIABLES
    step,            \* --step option: "import" | "verify" | "shadow" | "all"
    dry_run,         \* --dry-run flag
    shadow_enabled,  \* cfg.shadow.enabled
    migrate_pc,      \* "idle" | "start" | "dedup" | "importing" | "verify" |
                     \* "verifying" | "shadow" | "finished" | "failed"
    dedup_calls,     \* calls of deduplicate made by the run
    steps_run,       \* steps the run has entered, in order
    migration_report \* MigrationReport: [dedup_stats, import_stats, shadow, errors]

migrate_vars == <<step, dry_run, shadow_enabled, migrate_pc, dedup_calls, steps_run,
                  migration_report>>

vars == <<dedup_vars, import_vars, loop_vars, verify_vars, migrate_vars>>

\* -------------------------------------------------------------- _extract_key
_extract_key(cfg, user) ==
    IF cfg.key = "email" THEN
        IF Truthy(user.email) THEN Strip(Lower(user.email)) ELSE None
    ELSE IF cfg.key = "phone" THEN
        IF Truthy(user.phone) THEN Strip(user.phone) ELSE None
    ELSE IF cfg.key = "username" THEN
        IF Truthy(user.username) THEN Strip(Lower(user.username)) ELSE None
    ELSE IF cfg.key = "email_or_phone" THEN
        LET email_key == IF Truthy(user.email) THEN Strip(Lower(user.email)) ELSE None
            phone_key == IF Truthy(user.phone) THEN Strip(user.phone) ELSE None
        IN  PyOr(email_key, phone_key)
    ELSE IF cfg.key = "username_or_email" THEN
        LET username_key == IF Truthy(user.username) THEN Strip(Lower(user.username)) ELSE None
            email_key == IF Truthy(user.email) THEN Strip(Lower(user.email)) ELSE None
        IN  PyOr(username_key, email_key)
    ELSE None

\* ----------------------------------------------------------- _should_replace
\* Mutant: an equal timestamp replaces too.
_should_replace_or_equal(new_user, existing_user) ==
    IF new_user.created_at = NoTimestamp THEN FALSE
    ELSE IF existing_user.created_at = NoTimestamp THEN TRUE
    ELSE new_user.created_at >= existing_user.created_at

\* Mutant: the comparison is reversed, the earlier record wins.
_should_replace_earlier(new_user, existing_user) ==
    IF new_user.created_at = NoTimestamp THEN FALSE
    ELSE IF existing_user.created_at = NoTimestamp THEN TRUE
    ELSE new_user.created_at < existing_user.created_at

_should_replace(new_user, existing_user) ==
    IF new_user.created_at = NoTimestamp THEN FALSE
    ELSE IF existing_user.created_at = NoTimestamp THEN TRUE
    ELSE new_user.created_at > existing_user.created_at

\* Position of `existing` in unique_users, found by object identity (`u is
\* existing`); a stream position is one object, so identity is the id.
IndexOfExisting(lst, existing) ==
    CHOOSE i \in 0..Len(lst) :
        /\ i > 0 => lst[i].id = existing.id
        /\ \A j \in 1..Len(lst) : lst[j].id = existing.id => (i > 0 /\ i <= j)

\* Mutant: the canonical record is removed and the new one appended.
ReplaceExisting_move(lst, existing, user) ==
    Append(SelectSeq(lst, LAMBDA u : u.id # existing.id), user)

\* Mutant: the new record is appended and the old one stays.
ReplaceExisting_keep(lst, existing, user) == Append(lst, user)

\* for i, u in enumerate(unique_users): if u is existing: unique_users[i] = user
ReplaceExisting(lst, existing, user) ==
    LET i == IndexOfExisting(lst, existing)
    IN  IF i = 0 THEN lst ELSE [lst EXCEPT ![i] = user]

\* Mutant: the message names the existing record only.
DuplicateUserError_one_id(key, existing, user) ==
    [key |-> key, existing_id |-> existing.id, duplicate_id |-> existing.id]

\* The error raised under DedupStrategy.ERROR: the message names the key and
\* both ids.
DuplicateUserError(key, existing, user) ==
    [key |-> key, existing_id |-> existing.id, duplicate_id |-> user.id]

NoError == [key |-> None, existing_id |-> 0, duplicate_id |-> 0]

\* ------------------------------------------------------------- deduplicate
\* Mutant: every passed record is also counted as skipped.
PassthroughStats_skipped(stats, result) ==
    [stats EXCEPT !.total = Len(result), !.unique = Len(result),
                  !.skipped_no_key = Len(result)]

\* strategy NONE: stats.total = len(result); stats.unique = len(result)
PassthroughStats(stats, result) ==
    [stats EXCEPT !.total = Len(result), !.unique = Len(result)]

\* Mutant: a record without key is counted as a duplicate.
CountRecord_skip_as_duplicate(stats, counter) ==
    IF counter = "skipped_no_key"
    THEN [stats EXCEPT !.total = @ + 1, !.duplicates = @ + 1]
    ELSE [stats EXCEPT !.total = @ + 1, ![counter] = @ + 1]

\* Mutant: a duplicate is taken back out of the unique count.
CountRecord_uncount_unique(stats, counter) ==
    IF counter = "duplicates"
    THEN [stats EXCEPT !.total = @ + 1, !.duplicates = @ + 1, !.unique = @ - 1]
    ELSE [stats EXCEPT !.total = @ + 1, ![counter] = @ + 1]

\* Mutant: the record is added to the total but to no other counter.
CountRecord_total_only(stats, counter) == [stats EXCEPT !.total = @ + 1]

\* stats.total += 1, then the counter of the branch the record takes.
CountRecord(stats, counter) == [stats EXCEPT !.total = @ + 1, ![counter] = @ + 1]

\* next(users) yields a record: the record the loop body is about to handle.
NextUser(row) == SourceUser(Len(users_list) + 1, row)

\* strategy NONE: list(users) pulls one more record.
ListUsers ==
    /\ dedup_pc = "running"
    /\ config.strategy = "none"
    /\ Len(users_list) < MaxUsers
    /\ \E row \in SourceRows : users_list' = Append(users_list, NextUser(row))
    /\ UNCHANGED <<config, seen, unique_users, dedup_stats, conflicts,
                   dedup_pc, deduplicated, dedup_error>>
    /\ UNCHANGED <<import_vars, loop_vars, verify_vars, migrate_vars>>

\* strategy NONE: the stream is exhausted; total = unique = len(result).
DedupPassthrough ==
    /\ dedup_pc = "running"
    /\ config.strategy = "none"
    /\ dedup_stats' = PassthroughStats(dedup_stats, users_list)
    /\ deduplicated' = users_list
    /\ dedup_pc' = "returned"
    /\ UNCHANGED <<config, users_list, seen, unique_users, conflicts, dedup_error>>
    /\ UNCHANGED <<import_vars, loop_vars, verify_vars, migrate_vars>>

\* Loop body, key is None: count and drop the record.
DedupSkipNoKey ==
    /\ dedup_pc = "running"
    /\ config.strategy # "none"
    /\ Len(users_list) < MaxUsers
    /\ \E row \in SourceRows :
        LET user == NextUser(row)
            key == _extract_key(config, user)
        IN  /\ key = None
            /\ users_list' = Append(users_list, user)
            /\ dedup_stats' = CountRecord(dedup_stats, "skipped_no_key")
    /\ UNCHANGED <<config, seen, unique_users, conflicts, dedup_pc,
                   deduplicated, dedup_error>>
    /\ UNCHANGED <<import_vars, loop_vars, verify_vars, migrate_vars>>

\* Loop body, key not seen before: the record becomes canonical.
DedupAddUnique ==
    /\ dedup_pc = "running"
    /\ config.strategy # "none"
    /\ Len(users_list) < MaxUsers
    /\ \E row \in SourceRows :
        LET user == NextUser(row)
            key == _extract_key(config, user)
        IN  /\ key # None
            /\ key \notin DOMAIN seen
            /\ users_list' = Append(users_list, user)
            /\ seen' = seen @@ (key :> user)
            /\ unique_users' = Append(unique_users, user)
            /\ dedup_stats' = CountRecord(dedup_stats, "unique")
    /\ UNCHANGED <<config, conflicts, dedup_pc, deduplicated, dedup_error>>
    /\ UNCHANGED <<import_vars, loop_vars, verify_vars, migrate_vars>>

\* Mutant: KEEP_FIRST raises on a duplicate too.
RaisingStrategy_keep_first(strategy) == strategy \in {"error", "keep_first"}

\* if self.config.strategy == DedupStrategy.ERROR: raise DuplicateUserError
RaisingStrategy(strategy) == strategy = "error"

\* Mutant: KEEP_FIRST replaces too.
ReplacingStrategy_any(strategy) == strategy \in {"keep_latest", "keep_first"}

\* Strategies under which a conflict may replace the canonical record.
ReplacingStrategy(strategy) == strategy = "keep_latest"

\* Loop body, key already seen: count, log the conflict, apply the strategy.
DedupDuplicate ==
    /\ dedup_pc = "running"
    /\ config.strategy # "none"
    /\ Len(users_list) < MaxUsers
    /\ \E row \in SourceRows :
        LET user == NextUser(row)
            key == _extract_key(config, user)
        IN  /\ key # None
            /\ key \in DOMAIN seen
            /\ users_list' = Append(users_list, user)
            /\ dedup_stats' = CountRecord(dedup_stats, "duplicates")
            /\ conflicts' = Append(conflicts, ConflictRecord(key, seen[key], user))
            /\ IF RaisingStrategy(config.strategy) THEN
                   /\ dedup_pc' = "raised"
                   /\ dedup_error' = DuplicateUserError(key, seen[key], user)
                   /\ UNCHANGED <<seen, unique_users>>
               ELSE IF ReplacingStrategy(config.strategy)
                       /\ _should_replace(user, seen[key])
                       /\ IndexOfExisting(unique_users, seen[key]) > 0 THEN
                   /\ unique_users' = ReplaceExisting(unique_users, seen[key], user)
                   /\ seen' = [seen EXCEPT ![key] = user]
                   /\ UNCHANGED <<dedup_pc, dedup_error>>
               ELSE
                   UNCHANGED <<seen, unique_users, dedup_pc, dedup_error>>
    /\ UNCHANGED <<config, deduplicated>>
    /\ UNCHANGED <<import_vars, loop_vars, verify_vars, migrate_vars>>

\* The stream is exhausted: return unique_users.
DedupReturn ==
    /\ dedup_pc = "running"
    /\ config.strategy # "none"
    /\ deduplicated' = unique_users
    /\ dedup_pc' = "returned"
    /\ UNCHANGED <<config, users_list, seen, unique_users, dedup_stats,
                   conflicts, dedup_error>>
    /\ UNCHANGED <<import_vars, loop_vars, verify_vars, migrate_vars>>

\* ================================================================ importer
ImportStats ==
    [total |-> 0, created |-> 0, existing |-> 0, skipped |-> 0, updated |-> 0, errors |-> 0]

ImportResult(source_id, ag_id, status, note) ==
    [source_id |-> source_id, ag_id |-> ag_id, status |-> status, note |-> note]

\* dict.get(k, default)
DictGet(d, k, default) == IF k \in DOMAIN d THEN d[k] ELSE default

\* JSON values whose type the reconciliation depends on.
JsonNull == [type |-> "null", items |-> <<>>, fields |-> <<>>]

JsonString == [type |-> "string", items |-> <<>>, fields |-> <<>>]

JsonList(items) == [type |-> "list", items |-> items, fields |-> <<>>]

JsonObject(fields) == [type |-> "object", items |-> <<>>, fields |-> fields]

\* What the transport hands back for one POST.
NoReply == [kind |-> "none", error |-> "", data |-> <<>>]

TransportError == [kind |-> "transport_error", error |-> "ConnectError", data |-> <<>>]

HTTPStatusError == [kind |-> "http_error", error |-> "500", data |-> <<>>]

InvalidJson == [kind |-> "invalid_json", error |-> "JSONDecodeError", data |-> <<>>]

Ok(data) == [kind |-> "ok", error |-> "", data |-> data]

\* Mutant: only full batches are cut, a shorter tail is dropped.
NumBatches_floor(us) == Len(us) \div batch_size

\* batches = [users[i : i + batch_size] for i in range(0, len(users), batch_size)]
NumBatches(us) == (Len(us) + batch_size - 1) \div batch_size

Batches(us) ==
    [k \in 1..NumBatches(us) |->
        SubSeq(us, (k - 1) * batch_size + 1,
               IF k * batch_size < Len(us) THEN k * batch_size ELSE Len(us))]

\* Status strings the target may report in a detail entry ("queued" is one the
\* importer does not know).
TargetStatuses == {"created", "imported", "existing", "skipped", "updated", "error", "queued"}

\* Mutant: a status the importer does not know is reported as an error.
MapStatus_unknown_error(status_str) ==
    IF status_str \in {"created", "imported"} THEN "created"
    ELSE IF status_str \in {"existing", "skipped", "updated"} THEN status_str
    ELSE "error"

\* if/elif chain mapping the target's status string to ImportStatus.
MapStatus(status_str) ==
    IF status_str \in {"created", "imported"} THEN "created"
    ELSE IF status_str = "existing" THEN "existing"
    ELSE IF status_str = "skipped" THEN "skipped"
    ELSE IF status_str = "updated" THEN "updated"
    ELSE IF status_str = "error" THEN "error"
    ELSE "created"

\* Mutant: past the end of the list the last detail is used again.
DetailAt_last(details, i) ==
    IF i <= Len(details) THEN details[i]
    ELSE IF Len(details) > 0 THEN details[Len(details)]
    ELSE JsonObject(<<>>)

\* detail = details[i] if i < len(details) else {}
DetailAt(details, i) == IF i <= Len(details) THEN details[i] ELSE JsonObject(<<>>)

\* Mutant: the loop runs over the records and the details in parallel and
\* stops with the shorter list.
Reconcile_zip(batch, details) ==
    [i \in 1..(IF Len(details) < Len(batch) THEN Len(details) ELSE Len(batch)) |->
        LET detail == details[i].fields
        IN  ImportResult(batch[i].id,
                         DictGet(detail, "user_id", None),
                         MapStatus(DictGet(detail, "status", "created")),
                         DictGet(detail, "reason", <<>>))]

\* One ImportResult per record of the batch, from the parallel detail list.
Reconcile(batch, details) ==
    [i \in 1..Len(batch) |->
        LET detail == DetailAt(details, i).fields
        IN  ImportResult(batch[i].id,
                         DictGet(detail, "user_id", None),
                         MapStatus(DictGet(detail, "status", "created")),
                         DictGet(detail, "reason", <<>>))]

\* The reconciliation loop raises: len(None), or .get on an entry that is
\* not an object.
ReconcileRaises(batch, details) ==
    /\ Len(batch) > 0
    /\ \/ details.type # "list"
       \/ \E i \in 1..Len(batch) :
            i <= Len(details.items) /\ details.items[i].type # "object"

\* Mutant: the failure is counted once per batch, not once per record.
FailBatch_count_once(stats, batch, error_msg) ==
    [stats   |-> [stats EXCEPT !.errors = @ + 1, !.total = @ + 1],
     results |-> [i \in 1..Len(batch) |->
                    ImportResult(batch[i].id, None, "error", error_msg)]]

\* Mutant: only the first record of the batch is marked ERROR.
FailBatch_first_only(stats, batch, error_msg) ==
    [stats   |-> [stats EXCEPT !.errors = @ + Len(batch), !.total = @ + Len(batch)],
     results |-> [i \in 1..Len(batch) |->
                    IF i = 1 THEN ImportResult(batch[i].id, None, "error", error_msg)
                    ELSE ImportResult(batch[i].id, None, "created", <<>>)]]

\* Both except clauses: count every record as an error, mark every record ERROR.
FailBatch(stats, batch, error_msg) ==
    [stats   |-> [stats EXCEPT !.errors = @ + Len(batch), !.total = @ + Len(batch)],
     results |-> [i \in 1..Len(batch) |->
                    ImportResult(batch[i].id, None, "error", error_msg)]]

\* Mutant: every record of an accepted batch is counted as created.
AddAggregates_all_created(stats, batch, data) ==
    [stats EXCEPT
        !.total = @ + Len(batch),
        !.created = @ + Len(batch),
        !.skipped = @ + DictGet(data, "skipped", 0),
        !.updated = @ + DictGet(data, "updated", 0),
        !.errors = @ + DictGet(data, "errors", 0)]

\* self.stats.total += len(batch); created += imported; skipped += skipped;
\* updated += updated; errors += errors (each data.get(..., 0))
AddAggregates(stats, batch, data) ==
    [stats EXCEPT
        !.total = @ + Len(batch),
        !.created = @ + DictGet(data, "imported", 0),
        !.skipped = @ + DictGet(data, "skipped", 0),
        !.updated = @ + DictGet(data, "updated", 0),
        !.errors = @ + DictGet(data, "errors", 0)]

\* import_batch from the completion of the POST to its return.
import_batch(stats, batch, reply) ==
    IF reply.kind = "transport_error" THEN
        FailBatch(stats, batch, <<"Request failed", reply.error>>)
    ELSE IF reply.kind = "http_error" THEN
        FailBatch(stats, batch, <<"HTTP", reply.error>>)
    ELSE IF reply.kind = "invalid_json" THEN
        FailBatch(stats, batch, <<"Request failed", reply.error>>)
    ELSE
        LET data == reply.data
            details == DictGet(data, "details", JsonList(<<>>))
            counted == AddAggregates(stats, batch, data)
        IN  IF ReconcileRaises(batch, details) THEN
                FailBatch(counted, batch, <<"Request failed", "TypeError">>)
            ELSE [stats |-> counted, results |-> Reconcile(batch, details.items)]

\* --------------------------------------------------- the target (environment)
Detail(status) ==
    JsonObject(IF status \in {"existing", "skipped", "error"}
               THEN [status |-> status, user_id |-> <<"ag">>, reason |-> <<"dup">>]
               ELSE [status |-> status, user_id |-> <<"ag">>])

CountOf(statuses, wanted) == Cardinality({i \in DOMAIN statuses : statuses[i] \in wanted})

\* A response body whose aggregate counts agree with its detail list.
Body(statuses) ==
    [imported |-> CountOf(statuses, {"created", "imported"}),
     skipped  |-> CountOf(statuses, {"skipped", "existing"}),
     updated  |-> CountOf(statuses, {"updated"}),
     errors   |-> CountOf(statuses, {"error"}),
     details  |-> JsonList([i \in DOMAIN statuses |-> Detail(statuses[i])])]

\* Response bodies the model lets the target send for a batch of n records.
Bodies(n) ==
    {<<>>}
    \cup {Body([i \in 1..n |-> st]) : st \in TargetStatuses}
    \cup {Body([i \in 1..n |-> IF i = 1 THEN "imported" ELSE "skipped"])}
    \cup {[Body([i \in 1..(n - 1) |-> "imported"]) EXCEPT !.imported = n]}
    \cup {[imported |-> n, details |-> JsonNull]}
    \cup {[imported |-> n, details |-> JsonList([i \in 1..n |-> JsonString])]}

\* ------------------------------------------------------------- import_users
\* Mutant: gather without return_exceptions.
return_exceptions_off == FALSE

\* asyncio.gather(..., return_exceptions=True)
return_exceptions == TRUE

\* Mutant: the gate admits everyone.
CanAcquire_always(value) == TRUE

\* Semaphore.acquire() goes through only while the value is positive.
CanAcquire(value) == value > 0

\* Mutant: leaving `async with semaphore` does not give the permit back.
Release_leak(value) == value

\* Semaphore.release() on leaving `async with semaphore`, on return and on
\* exception alike.
Release(value) == value + 1

\* import_users outside `async with`: RuntimeError.
ImportUsersNoClient ==
    /\ import_pc = "called"
    /\ ~client
    /\ import_pc' = "raised"
    /\ UNCHANGED <<client, workers, users, semaphore, task_pc, requests, replies,
                   batch_results, import_stats, results>>
    /\ UNCHANGED <<dedup_vars, loop_vars, verify_vars, migrate_vars>>

\* import_users up to the gather: slice the batches, create gate and tasks.
ImportUsersGather ==
    /\ import_pc = "called"
    /\ client
    /\ semaphore' = workers
    /\ task_pc' = [b \in 1..NumBatches(users) |-> "pending"]
    /\ requests' = [b \in 1..NumBatches(users) |-> 0]
    /\ replies' = [b \in 1..NumBatches(users) |-> NoReply]
    /\ batch_results' = [b \in 1..NumBatches(users) |-> <<>>]
    /\ import_pc' = "gathering"
    /\ UNCHANGED <<client, workers, users, import_stats, results>>
    /\ UNCHANGED <<dedup_vars, loop_vars, verify_vars, migrate_vars>>

\* process_batch: pass the gate, build the entries, issue the POST.
ProcessBatchPost ==
    /\ import_pc = "gathering"
    /\ \E b \in DOMAIN task_pc :
        /\ task_pc[b] = "pending"
        /\ CanAcquire(semaphore)
        /\ semaphore' = semaphore - 1
        /\ requests' = [requests EXCEPT ![b] = @ + 1]
        /\ task_pc' = [task_pc EXCEPT ![b] = "posting"]
    /\ UNCHANGED <<client, workers, users, import_pc, replies, batch_results,
                   import_stats, results>>
    /\ UNCHANGED <<dedup_vars, loop_vars, verify_vars, migrate_vars>>

\* process_batch: pass the gate, _build_import_entry raises; the permit is
\* released and the exception is the task's result.
ProcessBatchBuildError ==
    /\ import_pc = "gathering"
    /\ \E b \in DOMAIN task_pc :
        /\ task_pc[b] = "pending"
        /\ CanAcquire(semaphore)
        /\ task_pc' = [task_pc EXCEPT ![b] = "raised"]
    /\ import_pc' = IF return_exceptions THEN import_pc ELSE "raised"
    /\ UNCHANGED <<client, workers, users, semaphore, requests, replies,
                   batch_results, import_stats, results>>
    /\ UNCHANGED <<dedup_vars, loop_vars, verify_vars, migrate_vars>>

\* Mutant: a batch whose request failed is queued again.
TaskAfterReply_retry(reply) ==
    IF reply.kind \in {"transport_error", "http_error"} THEN "pending" ELSE "done"

\* import_batch returns a result list from the try block and from both
\* except clauses: whatever the answer, the task is over.
TaskAfterReply(reply) == "done"

\* The POST of batch b completes with `reply`; import_batch runs to its
\* return and the permit is released.
PostCompletes(b, reply) ==
    /\ import_pc = "gathering"
    /\ task_pc[b] = "posting"
    /\ LET out == import_batch(import_stats, Batches(users)[b], reply)
       IN  /\ import_stats' = out.stats
           /\ batch_results' = [batch_results EXCEPT ![b] = out.results]
    /\ replies' = [replies EXCEPT ![b] = reply]
    /\ task_pc' = [task_pc EXCEPT ![b] = TaskAfterReply(reply)]
    /\ semaphore' = Release(semaphore)
    /\ UNCHANGED <<client, workers, users, import_pc, requests, results>>
    /\ UNCHANGED <<dedup_vars, loop_vars, verify_vars, migrate_vars>>

\* The request fails at the transport level.
PostTransportError == \E b \in DOMAIN task_pc : PostCompletes(b, TransportError)

\* The target answers with an error status.
PostHTTPError == \E b \in DOMAIN task_pc : PostCompletes(b, HTTPStatusError)

\* The target answers 2xx.
PostResponse ==
    \E b \in DOMAIN task_pc :
        /\ task_pc[b] = "posting"
        /\ \E reply \in {InvalidJson} \cup {Ok(d) : d \in Bodies(Len(Batches(users)[b]))} :
              PostCompletes(b, reply)

\* for batch_result in batch_results: count an exception, extend otherwise.
RECURSIVE Collect(_, _, _)
Collect(pcs, lists, b) ==
    IF b > Len(pcs) THEN [errors |-> 0, results |-> <<>>]
    ELSE LET rest == Collect(pcs, lists, b + 1)
         IN  IF pcs[b] = "raised"
             THEN [errors |-> rest.errors + 1, results |-> rest.results]
             ELSE [errors |-> rest.errors, results |-> lists[b] \o rest.results]

\* The gather is complete: import_users folds the task results and returns.
GatherReturn ==
    /\ import_pc = "gathering"
    /\ \A b \in DOMAIN task_pc : task_pc[b] \in {"done", "raised"}
    /\ LET folded == Collect(task_pc, batch_results, 1)
       IN  /\ import_stats' = [import_stats EXCEPT !.errors = @ + folded.errors]
           /\ results' = folded.results
    /\ import_pc' = "returned"
    /\ UNCHANGED <<client, workers, users, semaphore, task_pc, requests, replies,
                   batch_results>>
    /\ UNCHANGED <<dedup_vars, loop_vars, verify_vars, migrate_vars>>

\* ------------------------------------------------------------ specification
LoopIdle ==
    /\ running = 0
    /\ writes = <<>>

VerificationReport == [checks |-> <<>>, missing_users |-> <<>>, mismatches |-> <<>>]

VerifyIdle ==
    /\ verifier_client = FALSE
    /\ source_rows = <<>>
    /\ verify_pc = "idle"
    /\ count_replies = <<>>
    /\ sample_users = <<>>
    /\ lookups = <<>>
    /\ report = VerificationReport

MigrationReport ==
    [dedup_stats |-> DedupStats, import_stats |-> ImportStats, shadow |-> FALSE,
     errors |-> <<>>]

\* No migrate command is running: the engines are driven directly.
MigrateIdle ==
    /\ step = "all"
    /\ dry_run = FALSE
    /\ shadow_enabled = FALSE
    /\ migrate_pc = "idle"
    /\ dedup_calls = 0
    /\ steps_run = <<>>
    /\ migration_report = MigrationReport

ImportIdle ==
    /\ client = FALSE
    /\ workers = 0
    /\ users = <<>>
    /\ import_pc = "idle"
    /\ semaphore = 0
    /\ task_pc = <<>>
    /\ requests = <<>>
    /\ replies = <<>>
    /\ batch_results = <<>>
    /\ import_stats = ImportStats
    /\ results = <<>>

DedupInit ==
    /\ config \in [key : DedupKeys, strategy : DedupStrategy]
    /\ users_list = <<>>
    /\ seen = <<>>
    /\ unique_users = <<>>
    /\ dedup_stats = DedupStats
    /\ conflicts = <<>>
    /\ dedup_pc = "running"
    /\ deduplicated = <<>>
    /\ dedup_error = NoError

\* Deduplication engine: one run of deduplicate over a lazily pulled stream.
Init == DedupInit /\ ImportIdle /\ LoopIdle /\ VerifyIdle /\ MigrateIdle

Next ==
    \/ ListUsers
    \/ DedupPassthrough
    \/ DedupSkipNoKey
    \/ DedupAddUnique
    \/ DedupDuplicate
    \/ DedupReturn

Spec == Init /\ [][Next]_vars

\* Import pipeline: one call of import_users on a list of records that
\* deduplicate has returned.
ImportInit ==
    /\ \E n \in 0..MaxImport :
        /\ users_list = [i \in 1..n |-> SourceUser(i, [email |-> <<"a">>, username |-> None,
                                                      phone |-> None, created_at |-> 1])]
        /\ dedup_stats = [DedupStats EXCEPT !.total = n, !.unique = n]
    /\ config = [key |-> "email", strategy |-> "none"]
    /\ seen = <<>>
    /\ unique_users = <<>>
    /\ conflicts = <<>>
    /\ dedup_pc = "returned"
    /\ deduplicated = users_list
    /\ dedup_error = NoError
    /\ client \in BOOLEAN
    /\ workers \in 0..MaxWorkers
    /\ users = deduplicated
    /\ import_pc = "called"
    /\ semaphore = 0
    /\ task_pc = <<>>
    /\ requests = <<>>
    /\ replies = <<>>
    /\ batch_results = <<>>
    /\ import_stats = ImportStats
    /\ results = <<>>
    /\ LoopIdle
    /\ VerifyIdle
    /\ MigrateIdle

ImportNext ==
    \/ ImportUsersNoClient
    \/ ImportUsersGather
    \/ ProcessBatchPost
    \/ ProcessBatchBuildError
    \/ PostTransportError
    \/ PostHTTPError
    \/ PostResponse
    \/ GatherReturn

SpecImport == ImportInit /\ [][ImportNext]_vars

\* The same under the event loop's scheduling: a task that can run is run,
\* and every POST that was issued is answered or fails.
SpecImportLive == ImportInit /\ [][ImportNext]_vars /\ WF_vars(ImportNext)

\* ------------------------------------------------ the steps of both engines
RunInit == Init \/ ImportInit

RunNext == Next \/ ImportNext

\* Every step of deduplicate, import_users and import_batch: a run of
\* deduplicate over a stream, or a call of import_users on a list
\* deduplicate has returned.
SpecRun == RunInit /\ [][RunNext]_vars

\* ------------------------------------------------- import_batch, any answer
\* Entries a detail list may hold: one per status string, an object without
\* a status, and an entry that is not an object.
DetailEntries == {Detail(st) : st \in TargetStatuses} \cup {JsonObject(<<>>), JsonString}

\* Every response body over these entries for a batch of n records: the
\* detail list is omitted, null, or has up to n + 1 entries; the aggregate
\* counts are omitted, partly given, or all given.
AnyBodies(n) ==
    LET lists == UNION {[1..k -> DetailEntries] : k \in 0..(n + 1)}
        details == {<<>>, [details |-> JsonNull]}
                       \cup {[details |-> JsonList(l)] : l \in lists}
        counts == {<<>>, [imported |-> n],
                   [imported |-> 1, skipped |-> 1, updated |-> 1, errors |-> 1]}
    IN  {c @@ d : c \in counts, d \in details}

\* The target answers 2xx with any of these bodies.
PostAnyResponse ==
    \E b \in DOMAIN task_pc :
        /\ task_pc[b] = "posting"
        /\ \E reply \in {InvalidJson} \cup {Ok(d) : d \in AnyBodies(Len(Batches(users)[b]))} :
              PostCompletes(b, reply)

\* import_users with one batch whose POST is outstanding.
BatchInit ==
    /\ \E n \in 1..batch_size :
        /\ users_list = [i \in 1..n |-> SourceUser(i, [email |-> <<"a">>, username |-> None,
                                                      phone |-> None, created_at |-> 1])]
        /\ dedup_stats = [DedupStats EXCEPT !.total = n, !.unique = n]
    /\ config = [key |-> "email", strategy |-> "none"]
    /\ seen = <<>>
    /\ unique_users = <<>>
    /\ conflicts = <<>>
    /\ dedup_pc = "returned"
    /\ deduplicated = users_list
    /\ dedup_error = NoError
    /\ client = TRUE
    /\ workers = 1
    /\ users = deduplicated
    /\ import_pc = "gathering"
    /\ semaphore = 0
    /\ task_pc = <<"posting">>
    /\ requests = <<1>>
    /\ replies = <<NoReply>>
    /\ batch_results = << <<>> >>
    /\ import_stats = ImportStats
    /\ results = <<>>
    /\ LoopIdle
    /\ VerifyIdle
    /\ MigrateIdle

BatchNext ==
    \/ PostTransportError
    \/ PostHTTPError
    \/ PostAnyResponse
    \/ GatherReturn

\* import_batch on one batch, against every answer of the target.
SpecBatch == BatchInit /\ [][BatchNext]_vars

\* ------------------------------------------- import_batch, write by write
\* Mutant: the task yields to the event loop after each counter write.
AwaitBetweenWrites_yes == TRUE

\* From the completion of the POST to the return of import_batch there is no
\* await: the task keeps the event loop for the whole update.
AwaitBetweenWrites == FALSE

Write(counter, amount) == [counter |-> counter, amount |-> amount]

\* for user in batch: self.stats.errors += 1; self.stats.total += 1
RECURSIVE FailWrites(_)
FailWrites(n) ==
    IF n = 0 THEN <<>>
    ELSE <<Write("errors", 1), Write("total", 1)>> \o FailWrites(n - 1)

\* The += statements import_batch executes for one answer, in program order.
CounterWrites(batch, reply) ==
    IF reply.kind # "ok" THEN FailWrites(Len(batch))
    ELSE LET data == reply.data
             details == DictGet(data, "details", JsonList(<<>>))
         IN  <<Write("total", Len(batch)),
               Write("created", DictGet(data, "imported", 0)),
               Write("skipped", DictGet(data, "skipped", 0)),
               Write("updated", DictGet(data, "updated", 0)),
               Write("errors", DictGet(data, "errors", 0))>>
             \o (IF ReconcileRaises(batch, details)
                 THEN FailWrites(Len(batch)) ELSE <<>>)

\* Task b may execute its next statement: it holds the event loop, or the
\* loop is idle and b is suspended inside its update.
Runnable(b) ==
    \/ running = b
    \/ running = 0 /\ b \in DOMAIN writes /\ task_pc[b] = "posting"

\* The event loop runs a pending task up to its await on the POST.
LoopRunsPost ==
    /\ running = 0
    /\ ProcessBatchPost

\* The POST of a task completes and the event loop resumes the task.
LoopResumesTask ==
    /\ import_pc = "gathering"
    /\ running = 0
    /\ \E b \in DOMAIN task_pc :
        /\ task_pc[b] = "posting"
        /\ b \notin DOMAIN writes
        /\ \E reply \in {TransportError, HTTPStatusError, InvalidJson}
                        \cup {Ok(d) : d \in Bodies(Len(Batches(users)[b]))} :
              /\ replies' = [replies EXCEPT ![b] = reply]
              /\ writes' = writes @@
                    (b :> [todo |-> CounterWrites(Batches(users)[b], reply), done |-> 0])
        /\ running' = b
    /\ UNCHANGED <<client, workers, users, import_pc, semaphore, task_pc, requests,
                   batch_results, import_stats, results>>
    /\ UNCHANGED <<dedup_vars, verify_vars, migrate_vars>>

\* One self.stats.<counter> += <amount>.
CounterWrite ==
    /\ \E b \in DOMAIN writes :
        /\ Runnable(b)
        /\ writes[b].todo # <<>>
        /\ LET w == Head(writes[b].todo)
           IN  import_stats' = [import_stats EXCEPT ![w.counter] = @ + w.amount]
        /\ writes' = [writes EXCEPT ![b] = [todo |-> Tail(@.todo), done |-> @.done + 1]]
        /\ running' = IF AwaitBetweenWrites THEN 0 ELSE b
    /\ UNCHANGED <<client, workers, users, import_pc, semaphore, task_pc, requests,
                   replies, batch_results, results>>
    /\ UNCHANGED <<dedup_vars, verify_vars, migrate_vars>>

\* import_batch returns its results, process_batch releases the permit and
\* the task ends.
ImportBatchReturns ==
    /\ \E b \in DOMAIN writes :
        /\ Runnable(b)
        /\ task_pc[b] = "posting"
        /\ writes[b].todo = <<>>
        /\ batch_results' = [batch_results EXCEPT
              ![b] = import_batch(ImportStats, Batches(users)[b], replies[b]).results]
        /\ task_pc' = [task_pc EXCEPT ![b] = "done"]
    /\ semaphore' = Release(semaphore)
    /\ running' = 0
    /\ UNCHANGED <<client, workers, users, import_pc, requests, replies,
                   import_stats, results, writes>>
    /\ UNCHANGED <<dedup_vars, verify_vars, migrate_vars>>

\* Every task has ended: the gather resumes import_users.
LoopResumesGather ==
    /\ running = 0
    /\ GatherReturn

AtomicInit ==
    /\ ImportInit
    /\ client

AtomicNext ==
    \/ ImportUsersGather
    \/ LoopRunsPost
    \/ LoopResumesTask
    \/ CounterWrite
    \/ ImportBatchReturns
    \/ LoopResumesGather

\* import_users with the counter writes of import_batch as separate steps.
SpecAtomic == AtomicInit /\ [][AtomicNext]_vars

\* ================================================================ verifier
\* Mutant: a check passes when the target holds at least the expected count.
VerificationCheck_at_least(name, expected, actual) ==
    [name |-> name, expected |-> expected, actual |-> actual,
     passed |-> (actual >= expected)]

\* __post_init__: passed = expected == actual
VerificationCheck(name, expected, actual) ==
    [name |-> name, expected |-> expected, actual |-> actual,
     passed |-> (expected = actual)]

add_check(rep, name, expected, actual) ==
    [rep EXCEPT !.checks = Append(@, VerificationCheck(name, expected, actual))]

add_missing(rep, user_id, email) ==
    [rep EXCEPT !.missing_users = Append(@, [user_id |-> user_id, email |-> email])]

add_mismatch(rep, user_id, field_name, expected, actual) ==
    [rep EXCEPT !.mismatches = Append(@, [user_id |-> user_id, field |-> field_name,
                                          expected |-> expected, actual |-> actual])]

\* Mutant: mismatches do not count against the report.
passed_without_mismatches(rep) ==
    /\ \A i \in DOMAIN rep.checks : rep.checks[i].passed
    /\ rep.missing_users = <<>>

\* all(c.passed for c in checks) and not missing_users and not mismatches
passed(rep) ==
    /\ \A i \in DOMAIN rep.checks : rep.checks[i].passed
    /\ rep.missing_users = <<>>
    /\ rep.mismatches = <<>>

\* str(user["id"])
str(v) == ToString(v)

\* Email values of the source table (NULL is None).
SourceEmails == {None, <<"a">>}

\* --------------------------------------------- VerificationReport, any calls
CheckNames == {"User count", "App profiles count"}

ReportSize == Len(report.checks) + Len(report.missing_users) + Len(report.mismatches)

AddCheck ==
    /\ verify_pc = "idle"
    /\ ReportSize < MaxEntries
    /\ \E name \in CheckNames, expected \in 0..1, actual \in 0..1 :
          report' = add_check(report, name, expected, actual)
    /\ UNCHANGED <<verifier_client, source_rows, verify_pc, count_replies,
                   sample_users, lookups>>
    /\ UNCHANGED <<dedup_vars, import_vars, loop_vars, migrate_vars>>

AddMissing ==
    /\ verify_pc = "idle"
    /\ ReportSize < MaxEntries
    /\ \E id \in 1..2, email \in SourceEmails :
          report' = add_missing(report, str(id), email)
    /\ UNCHANGED <<verifier_client, source_rows, verify_pc, count_replies,
                   sample_users, lookups>>
    /\ UNCHANGED <<dedup_vars, import_vars, loop_vars, migrate_vars>>

AddMismatch ==
    /\ verify_pc = "idle"
    /\ ReportSize < MaxEntries
    /\ \E id \in 1..2, expected \in SourceEmails, actual \in {<<>>, <<"A">>} :
          report' = add_mismatch(report, str(id), "email", expected, actual)
    /\ UNCHANGED <<verifier_client, source_rows, verify_pc, count_replies,
                   sample_users, lookups>>
    /\ UNCHANGED <<dedup_vars, import_vars, loop_vars, migrate_vars>>

\* No deduplication run: the verify step stands alone.
DedupIdle ==
    /\ config = [key |-> "email", strategy |-> "none"]
    /\ users_list = <<>>
    /\ seen = <<>>
    /\ unique_users = <<>>
    /\ dedup_stats = DedupStats
    /\ conflicts = <<>>
    /\ dedup_pc = "idle"
    /\ deduplicated = <<>>
    /\ dedup_error = NoError

ReportInit == DedupIdle /\ ImportIdle /\ LoopIdle /\ VerifyIdle /\ MigrateIdle

ReportNext ==
    \/ AddCheck
    \/ AddMissing
    \/ AddMismatch

\* A VerificationReport under any sequence of add_check, add_missing and
\* add_mismatch calls.
SpecReport == ReportInit /\ [][ReportNext]_vars

\* ------------------------------------------------------------------ verify
\* min(100, source_count)
sample_limit == 100

\* SELECT COUNT(*) FROM users_table
_count_source_users == Len(source_rows)

\* ORDER BY RANDOM() LIMIT sample_size: any sample_size distinct rows (all of
\* them when the table is shorter), in any order.
_get_sample_users(sample_size) ==
    LET k == IF sample_size < Len(source_rows) THEN sample_size ELSE Len(source_rows)
    IN  {[j \in 1..k |-> source_rows[pick[j]]] :
            pick \in {f \in [1..k -> DOMAIN source_rows] :
                        \A i, j \in 1..k : i # j => f[i] # f[j]}}

\* The target answers 404.
NotFound == [kind |-> "not_found", error |-> "404", data |-> <<>>]

\* Answers of the target to a count request, for a source of n rows.
CountReplies(n) ==
    {HTTPStatusError, Ok(<<>>), Ok([total |-> n]), Ok([total |-> n + 1])}

\* try: ... return response.json().get("total", 0) / except Exception: return 0
_count_ag_users(reply) ==
    IF reply.kind = "ok" THEN DictGet(reply.data, "total", 0) ELSE 0

_count_app_profiles(reply) ==
    IF reply.kind = "ok" THEN DictGet(reply.data, "total", 0) ELSE 0

\* User objects the target returns for the lookup of one id.
TargetUsers(user_id) ==
    {[id |-> user_id]}
    \cup {[id |-> user_id, email |-> e] : e \in {None, <<"a">>, <<"A">>}}

LookupReplies(user_id) ==
    {NotFound, HTTPStatusError, TransportError, InvalidJson}
    \cup {Ok(u) : u \in TargetUsers(user_id)}

\* Mutant: a failed lookup propagates to verify.
_find_in_ag_raises(reply) ==
    IF reply.kind = "ok" THEN [raised |-> FALSE, value |-> JsonObject(reply.data)]
    ELSE IF reply.kind = "not_found" THEN [raised |-> FALSE, value |-> JsonNull]
    ELSE [raised |-> TRUE, value |-> JsonNull]

\* 404 -> None; raise_for_status or json() raising -> except Exception -> None
_find_in_ag(reply) ==
    IF reply.kind = "ok" THEN [raised |-> FALSE, value |-> JsonObject(reply.data)]
    ELSE IF reply.kind = "not_found" THEN [raised |-> FALSE, value |-> JsonNull]
    ELSE [raised |-> FALSE, value |-> JsonNull]

\* not ag_user
Falsy(value) == value.type = "null" \/ DOMAIN value.fields = {}

\* Mutant: emails are compared without regard to case.
EmailDiffers_lower(ag_email, email) ==
    IF ag_email = None \/ email = None THEN ag_email # email
    ELSE Lower(ag_email) # Lower(email)

\* ag_user.get("email") != email
EmailDiffers(ag_email, email) == ag_email # email

\* The body of the sample loop after the lookup.
CheckUser(rep, user, ag_user) ==
    LET user_id == str(user.id)
        email == user.email
    IN  IF Falsy(ag_user) THEN add_missing(rep, user_id, email)
        ELSE IF EmailDiffers(DictGet(ag_user.fields, "email", None), email)
        THEN add_mismatch(rep, user_id, "email", email,
                          DictGet(ag_user.fields, "email", <<>>))
        ELSE rep

\* if not self._http_client or not self._conn: raise RuntimeError
VerifyNoClient ==
    /\ verify_pc = "called"
    /\ ~verifier_client
    /\ verify_pc' = "raised"
    /\ UNCHANGED <<verifier_client, source_rows, count_replies, sample_users,
                   lookups, report>>
    /\ UNCHANGED <<dedup_vars, import_vars, loop_vars, migrate_vars>>

\* _count_ag_users answers; add_check("User count", ...).
CountAgUsers ==
    /\ verify_pc = "called"
    /\ verifier_client
    /\ \E reply \in CountReplies(Len(source_rows)) :
        /\ count_replies' = Append(count_replies, reply)
        /\ report' = add_check(report, "User count", _count_source_users,
                               _count_ag_users(reply))
    /\ verify_pc' = "counted"
    /\ UNCHANGED <<verifier_client, source_rows, sample_users, lookups>>
    /\ UNCHANGED <<dedup_vars, import_vars, loop_vars, migrate_vars>>

\* _count_app_profiles answers; add_check("App profiles count", ...); the
\* sample is drawn; with an empty sample verify returns.
CountAppProfiles ==
    /\ verify_pc = "counted"
    /\ \E reply \in CountReplies(Len(source_rows)) :
        /\ count_replies' = Append(count_replies, reply)
        /\ report' = add_check(report, "App profiles count", _count_source_users,
                               _count_app_profiles(reply))
    /\ LET size == IF sample_limit < _count_source_users
                   THEN sample_limit ELSE _count_source_users
       IN  sample_users' \in _get_sample_users(size)
    /\ verify_pc' = IF sample_users' = <<>> THEN "returned" ELSE "sampling"
    /\ UNCHANGED <<verifier_client, source_rows, lookups>>
    /\ UNCHANGED <<dedup_vars, import_vars, loop_vars, migrate_vars>>

\* The lookup of the next sampled record answers; the record is classified;
\* after the last one verify returns the report.
FindInAg ==
    /\ verify_pc = "sampling"
    /\ LET j == Len(lookups) + 1
           user == sample_users[j]
       IN  \E reply \in LookupReplies(str(user.id)) :
             LET found == _find_in_ag(reply)
             IN  /\ lookups' = Append(lookups, reply)
                 /\ IF found.raised
                    THEN /\ report' = report
                         /\ verify_pc' = "raised"
                    ELSE /\ report' = CheckUser(report, user, found.value)
                         /\ verify_pc' = IF j = Len(sample_users)
                                         THEN "returned" ELSE "sampling"
    /\ UNCHANGED <<verifier_client, source_rows, count_replies, sample_users>>
    /\ UNCHANGED <<dedup_vars, import_vars, loop_vars, migrate_vars>>

\* The source table: ids are a primary key.
SourceTables ==
    UNION {{[i \in 1..n |-> [id |-> i, email |-> emails[i]]] :
               emails \in [1..n -> SourceEmails]} : n \in 0..MaxSource}

VerifyInit ==
    /\ DedupIdle
    /\ ImportIdle
    /\ LoopIdle
    /\ verifier_client \in BOOLEAN
    /\ source_rows \in SourceTables
    /\ verify_pc = "called"
    /\ count_replies = <<>>
    /\ sample_users = <<>>
    /\ lookups = <<>>
    /\ report = VerificationReport
    /\ MigrateIdle

VerifyNext ==
    \/ VerifyNoClient
    \/ CountAgUsers
    \/ CountAppProfiles
    \/ FindInAg

\* One call of verify.
SpecVerify == VerifyInit /\ [][VerifyNext]_vars

\* ================================================================= migrate
\* Mutant: import_users is handed the export, not the deduplicated list.
ImportArgument_exported(exported, dedup_result) == exported

\* asyncio.run(_run_import_async(cfg, deduplicated, report))
ImportArgument(exported, dedup_result) == dedup_result

\* Mutant: a failed import step is logged and the run goes on to verify.
AfterStepError_continue == "verify"

\* except Exception in migrate: report.errors.append(str(e)); sys.exit(1)
AfterStepError == "failed"

\* report.dedup_stats = DedupStats(total=len(users_list),
\*     unique=len(deduplicated), duplicates=len(users_list) - len(deduplicated))
ReportedDedupStats(exported, dedup_result) ==
    [DedupStats EXCEPT !.total = Len(exported), !.unique = Len(dedup_result),
                       !.duplicates = Len(exported) - Len(dedup_result)]

\* report.import_stats = ImportStats(total=len(results), created=sum(1 for r
\* in results if r.status.value == "created"), ...)
ReportedImportStats(import_results) ==
    [total    |-> Len(import_results),
     created  |-> Cardinality({i \in DOMAIN import_results : import_results[i].status = "created"}),
     existing |-> Cardinality({i \in DOMAIN import_results : import_results[i].status = "existing"}),
     skipped  |-> Cardinality({i \in DOMAIN import_results : import_results[i].status = "skipped"}),
     updated  |-> Cardinality({i \in DOMAIN import_results : import_results[i].status = "updated"}),
     errors   |-> Cardinality({i \in DOMAIN import_results : import_results[i].status = "error"})]

\* Mutant: the shadow step does not look at --dry-run.
ShadowRuns_in_dry_run(selected, enabled, dry) == selected \in {"shadow", "all"} /\ enabled

\* if step in ('shadow', 'all') and cfg.shadow.enabled and not dry_run
ShadowRuns(selected, enabled, dry) == selected \in {"shadow", "all"} /\ enabled /\ ~dry

\* step in ('import', 'all'): _run_import_step exports and calls deduplicate.
RunImportStep ==
    /\ migrate_pc = "start"
    /\ step \in {"import", "all"}
    /\ dedup_pc = "idle"
    /\ dedup_pc' = "running"
    /\ dedup_calls' = dedup_calls + 1
    /\ steps_run' = Append(steps_run, "import")
    /\ migrate_pc' = "dedup"
    /\ UNCHANGED <<config, users_list, seen, unique_users, dedup_stats, conflicts,
                   deduplicated, dedup_error>>
    /\ UNCHANGED <<step, dry_run, shadow_enabled, migration_report>>
    /\ UNCHANGED <<import_vars, loop_vars, verify_vars>>

SkipImportStep ==
    /\ migrate_pc = "start"
    /\ step \notin {"import", "all"}
    /\ migrate_pc' = "verify"
    /\ UNCHANGED <<step, dry_run, shadow_enabled, dedup_calls, steps_run,
                   migration_report>>
    /\ UNCHANGED <<dedup_vars, import_vars, loop_vars, verify_vars>>

\* deduplicate raised: the exception leaves _run_import_step through its
\* finally and reaches the except clause of migrate.
ImportStepDedupRaises ==
    /\ migrate_pc = "dedup"
    /\ dedup_pc = "raised"
    /\ migration_report' = [migration_report EXCEPT !.errors = Append(@, "DuplicateUserError")]
    /\ migrate_pc' = AfterStepError
    /\ UNCHANGED <<step, dry_run, shadow_enabled, dedup_calls, steps_run>>
    /\ UNCHANGED <<dedup_vars, import_vars, loop_vars, verify_vars>>

\* deduplicate returned under --dry-run: the import is skipped.
ImportStepDryRun ==
    /\ migrate_pc = "dedup"
    /\ dedup_pc = "returned"
    /\ dry_run
    /\ migration_report' =
          [migration_report EXCEPT
              !.dedup_stats = ReportedDedupStats(users_list, deduplicated),
              !.import_stats = [ImportStats EXCEPT !.total = Len(deduplicated)]]
    /\ migrate_pc' = "verify"
    /\ UNCHANGED <<step, dry_run, shadow_enabled, dedup_calls, steps_run>>
    /\ UNCHANGED <<dedup_vars, import_vars, loop_vars, verify_vars>>

\* deduplicate returned: _run_import_async builds an AuthGatewayImporter
\* (never entered as a context manager) and calls import_users.
ImportStepCallsImport ==
    /\ migrate_pc = "dedup"
    /\ dedup_pc = "returned"
    /\ ~dry_run
    /\ migration_report' =
          [migration_report EXCEPT
              !.dedup_stats = ReportedDedupStats(users_list, deduplicated)]
    /\ client' = FALSE
    /\ workers' \in 1..MaxWorkers
    /\ users' = ImportArgument(users_list, deduplicated)
    /\ import_pc' = "called"
    /\ migrate_pc' = "importing"
    /\ UNCHANGED <<semaphore, task_pc, requests, replies, batch_results,
                   import_stats, results>>
    /\ UNCHANGED <<step, dry_run, shadow_enabled, dedup_calls, steps_run>>
    /\ UNCHANGED <<dedup_vars, loop_vars, verify_vars>>

\* import_users raised: the exception reaches the except clause of migrate.
ImportStepImportRaises ==
    /\ migrate_pc = "importing"
    /\ import_pc = "raised"
    /\ migration_report' = [migration_report EXCEPT !.errors = Append(@, "RuntimeError")]
    /\ migrate_pc' = AfterStepError
    /\ UNCHANGED <<step, dry_run, shadow_enabled, dedup_calls, steps_run>>
    /\ UNCHANGED <<dedup_vars, import_vars, loop_vars, verify_vars>>

\* step in ('verify', 'all'): _run_verify_step builds a MigrationVerifier
\* (never entered as a context manager) and calls verify.
RunVerifyStep ==
    /\ migrate_pc = "verify"
    /\ step \in {"verify", "all"}
    /\ verifier_client' = FALSE
    /\ verify_pc' = "called"
    /\ steps_run' = Append(steps_run, "verify")
    /\ migrate_pc' = "verifying"
    /\ UNCHANGED <<source_rows, count_replies, sample_users, lookups, report>>
    /\ UNCHANGED <<step, dry_run, shadow_enabled, dedup_calls, migration_report>>
    /\ UNCHANGED <<dedup_vars, import_vars, loop_vars>>

SkipVerifyStep ==
    /\ migrate_pc = "verify"
    /\ step \notin {"verify", "all"}
    /\ migrate_pc' = "shadow"
    /\ UNCHANGED <<step, dry_run, shadow_enabled, dedup_calls, steps_run,
                   migration_report>>
    /\ UNCHANGED <<dedup_vars, import_vars, loop_vars, verify_vars>>

\* verify raised: the exception reaches the except clause of migrate.
VerifyStepRaises ==
    /\ migrate_pc = "verifying"
    /\ verify_pc = "raised"
    /\ migration_report' = [migration_report EXCEPT !.errors = Append(@, "RuntimeError")]
    /\ migrate_pc' = "failed"
    /\ UNCHANGED <<step, dry_run, shadow_enabled, dedup_calls, steps_run>>
    /\ UNCHANGED <<dedup_vars, import_vars, loop_vars, verify_vars>>

\* step in ('shadow', 'all') and cfg.shadow.enabled and not dry_run
RunShadowStep ==
    /\ migrate_pc = "shadow"
    /\ ShadowRuns(step, shadow_enabled, dry_run)
    /\ steps_run' = Append(steps_run, "shadow")
    /\ migration_report' = [migration_report EXCEPT !.shadow = TRUE]
    /\ migrate_pc' = "finished"
    /\ UNCHANGED <<step, dry_run, shadow_enabled, dedup_calls>>
    /\ UNCHANGED <<dedup_vars, import_vars, loop_vars, verify_vars>>

SkipShadowStep ==
    /\ migrate_pc = "shadow"
    /\ ~ShadowRuns(step, shadow_enabled, dry_run)
    /\ migrate_pc' = "finished"
    /\ UNCHANGED <<step, dry_run, shadow_enabled, dedup_calls, steps_run,
                   migration_report>>
    /\ UNCHANGED <<dedup_vars, import_vars, loop_vars, verify_vars>>

\* The migrate command after the configuration is loaded and the run is
\* confirmed.  The flow of the command depends on the dedup strategy, not on
\* the key selector, which is fixed to the default.
MigrateInit ==
    /\ config \in [key : {"email"}, strategy : DedupStrategy]
    /\ users_list = <<>>
    /\ seen = <<>>
    /\ unique_users = <<>>
    /\ dedup_stats = DedupStats
    /\ conflicts = <<>>
    /\ dedup_pc = "idle"
    /\ deduplicated = <<>>
    /\ dedup_error = NoError
    /\ ImportIdle
    /\ LoopIdle
    /\ VerifyIdle
    /\ step \in {"import", "verify", "shadow", "all"}
    /\ dry_run \in BOOLEAN
    /\ shadow_enabled \in BOOLEAN
    /\ migrate_pc = "start"
    /\ dedup_calls = 0
    /\ steps_run = <<>>
    /\ migration_report = MigrationReport

MigrateNext ==
    \/ RunImportStep
    \/ SkipImportStep
    \/ Next
    \/ ImportStepDedupRaises
    \/ ImportStepDryRun
    \/ ImportStepCallsImport
    \/ ImportUsersNoClient
    \/ ImportStepImportRaises
    \/ RunVerifyStep
    \/ SkipVerifyStep
    \/ VerifyNoClient
    \/ VerifyStepRaises
    \/ RunShadowStep
    \/ SkipShadowStep

\* One run of the migrate command.
SpecMigrate == MigrateInit /\ [][MigrateNext]_vars

\* ================================================================== claims
KeyOf(u) == _extract_key(config, u)

\* Positions of the consumed input whose record has key k.
InputWithKey(k) == {i \in 1..Len(users_list) : KeyOf(users_list[i]) = k}

Min(S) == CHOOSE x \in S : \A y \in S : x <= y

Max(S) == CHOOSE x \in S : \A y \in S : x >= y

KeysOf(lst) == [i \in 1..Len(lst) |-> KeyOf(lst[i])]

Range(f) == {f[i] : i \in DOMAIN f}

\* Keys of a list of records in order of first appearance.
RECURSIVE FirstKeys(_)
FirstKeys(us) ==
    IF Len(us) = 0 THEN <<>>
    ELSE LET prev == FirstKeys(SubSeq(us, 1, Len(us) - 1))
             k == KeyOf(us[Len(us)])
         IN  IF k = None \/ k \in Range(prev) THEN prev ELSE Append(prev, k)

\* No two entries of lst have the same (present) key.
NoDuplicateKeys(lst) ==
    \A i, j \in 1..Len(lst) :
        (i # j /\ KeyOf(lst[i]) # None) => KeyOf(lst[i]) # KeyOf(lst[j])

\* Positions of the output whose record has key k.
OutputWithKey(k) == {c \in 1..Len(deduplicated) : KeyOf(deduplicated[c]) = k}

\* C1: after every processed record, and when deduplicate has returned or
\* raised, unique + duplicates + skipped_no_key equals total.
C1_StatsSum ==
    dedup_stats.unique + dedup_stats.duplicates + dedup_stats.skipped_no_key
        = dedup_stats.total

\* A run under ERROR that skipped a record, kept one and aborted on a third.
C1_Witness ==
    /\ dedup_pc = "raised"
    /\ dedup_stats.skipped_no_key = 1
    /\ dedup_stats.unique = 1
    /\ dedup_stats.duplicates = 1

\* C6: under KEEP_LATEST, once deduplicate has returned, every key of the
\* input has one canonical record in the output; it carries the greatest
\* creation timestamp among the input records of that key that have one, and
\* is the first-seen record of the key when none has a timestamp.
C6_KeepLatestCanonical ==
    (config.strategy = "keep_latest" /\ dedup_pc = "returned") =>
        \A i \in 1..Len(users_list) :
            LET k == KeyOf(users_list[i])
                group == InputWithKey(k)
                stamped == {j \in group : users_list[j].created_at # NoTimestamp}
            IN  k # None =>
                  /\ Cardinality(OutputWithKey(k)) = 1
                  /\ \A c \in OutputWithKey(k) :
                        IF stamped = {}
                        THEN deduplicated[c] = users_list[Min(group)]
                        ELSE deduplicated[c].created_at =
                                Max({users_list[j].created_at : j \in stamped})

\* Three records of one key: the first has no timestamp, the second replaced
\* it, the third is older than the second and did not.
C6_Witness ==
    /\ config.strategy = "keep_latest"
    /\ dedup_pc = "returned"
    /\ Len(users_list) = 3
    /\ Len(deduplicated) = 1
    /\ users_list[1].created_at = NoTimestamp
    /\ deduplicated[1].id = 2
    /\ users_list[3].created_at # NoTimestamp

\* C7: under KEEP_FIRST, once deduplicate has returned, the output record of
\* every key is the first input record with that key.
C7_KeepFirstCanonical ==
    (config.strategy = "keep_first" /\ dedup_pc = "returned") =>
        \A i \in 1..Len(users_list) :
            LET k == KeyOf(users_list[i])
            IN  k # None =>
                  /\ Cardinality(OutputWithKey(k)) = 1
                  /\ \A c \in OutputWithKey(k) :
                        deduplicated[c] = users_list[Min(InputWithKey(k))]

\* A later duplicate with a later timestamp was discarded.
C7_Witness ==
    /\ config.strategy = "keep_first"
    /\ dedup_pc = "returned"
    /\ Len(users_list) = 3
    /\ Len(deduplicated) = 1
    /\ users_list[1].created_at = 1
    /\ users_list[2].created_at = 2

\* C8: under KEEP_LATEST the keys of the output list, read in order, are the
\* keys of the input in order of first appearance, and every slot holds the
\* record the seen-key map holds for its key: a replacement overwrites the
\* slot of the record it replaces and does not change the length.
C8_ReplaceInPlace ==
    config.strategy = "keep_latest" =>
        /\ KeysOf(unique_users) = FirstKeys(users_list)
        /\ \A i \in 1..Len(unique_users) :
              unique_users[i] = seen[KeyOf(unique_users[i])]
        /\ dedup_pc = "returned" => deduplicated = unique_users

\* Record 3 replaced record 1 and sits in its slot, before record 2.
C8_Witness ==
    /\ config.strategy = "keep_latest"
    /\ dedup_pc = "returned"
    /\ Len(deduplicated) = 2
    /\ deduplicated[1].id = 3
    /\ deduplicated[2].id = 2

\* Positions of the consumed input whose key an earlier record already had.
DuplicatePositions ==
    {j \in 1..Len(users_list) :
        /\ KeyOf(users_list[j]) # None
        /\ \E i \in 1..(j - 1) : KeyOf(users_list[i]) = KeyOf(users_list[j])}

\* C9: under ERROR, as soon as the input holds two records with one key,
\* deduplicate has raised at that record (nothing after it is consumed), the
\* error names the key, the id of the first record of the key and the id of
\* the duplicate, and no list is returned.
C9_ErrorAborts ==
    (config.strategy = "error" /\ DuplicatePositions # {}) =>
        LET dup == users_list[Len(users_list)]
        IN  /\ dedup_pc = "raised"
            /\ DuplicatePositions = {Len(users_list)}
            /\ dedup_error.key = KeyOf(dup)
            /\ dedup_error.existing_id = users_list[Min(InputWithKey(KeyOf(dup)))].id
            /\ dedup_error.duplicate_id = dup.id
            /\ deduplicated = <<>>

\* The third record duplicates the first, a record of another key lies between.
C9_Witness ==
    /\ config.strategy = "error"
    /\ dedup_pc = "raised"
    /\ dedup_error.existing_id = 1
    /\ dedup_error.duplicate_id = 3
    /\ dedup_stats.unique = 2

\* C10 as stated: for any strategy, the returned list has no two entries with
\* the same key.
C10_AnyStrategy == dedup_pc = "returned" => NoDuplicateKeys(deduplicated)

\* C10 (amended): for any strategy other than NONE, the returned list has no
\* two entries with the same key.
C10_NoDuplicateKeys ==
    (dedup_pc = "returned" /\ config.strategy # "none") => NoDuplicateKeys(deduplicated)

\* A run that met duplicates, replaced a record and returned two records.
C10_Witness ==
    /\ dedup_pc = "returned"
    /\ config.strategy = "keep_latest"
    /\ dedup_stats.duplicates > 0
    /\ Len(deduplicated) = 2
    /\ \E i \in 1..2 : deduplicated[i].id = 3

\* Batches whose POST has been issued and has neither completed nor failed.
Outstanding == {b \in DOMAIN task_pc : task_pc[b] = "posting"}

\* The request of batch b failed: transport failure or error response.
RequestFailed(b) == replies[b].kind \in {"transport_error", "http_error"}

\* The ImportResults of batch b within the list import_users returned.
ResultsOf(b) ==
    SelectSeq(results,
              LAMBDA r : \E i \in 1..Len(Batches(users)[b]) :
                            r.source_id = Batches(users)[b][i].id)

\* C2: in every interleaving the number of batches with an outstanding POST
\* never exceeds the worker bound.
C2_BoundedOutstanding == Cardinality(Outstanding) <= workers

\* Three batches, two workers: two requests outstanding, the third batch waits.
C2_Witness ==
    /\ workers = 2
    /\ Cardinality(Outstanding) = 2
    /\ \E b \in DOMAIN task_pc : task_pc[b] = "pending"

\* C3: the step in which a batch's request fails adds the batch size to
\* errors and to total and changes no other counter.
C3_FailedBatchCounters ==
    [][\A b \in DOMAIN task_pc :
          (task_pc[b] = "posting" /\ task_pc'[b] = "done"
             /\ replies'[b].kind \in {"transport_error", "http_error"})
          => import_stats' =
                [import_stats EXCEPT !.errors = @ + Len(Batches(users)[b]),
                                     !.total = @ + Len(Batches(users)[b])]]_vars

\* A full batch failed after another batch had been counted as created.
C3_Witness ==
    \E b \in DOMAIN task_pc :
        /\ task_pc[b] = "done"
        /\ RequestFailed(b)
        /\ Len(Batches(users)[b]) = batch_size
        /\ import_stats.errors = batch_size
        /\ import_stats.created > 0
        /\ import_stats.total = import_stats.created + batch_size

\* C4: import_users raises only when called without a client, never because
\* a batch failed; when it returns, every batch has run to its end, every
\* batch whose entries were built has been POSTed, and the results of every
\* batch that returned a list (one per record) are in the returned list as
\* import_batch produced them.
C4_FailureNeverAborts ==
    /\ import_pc = "raised" => ~client
    /\ import_pc = "returned" =>
          \A b \in DOMAIN task_pc :
              /\ task_pc[b] \in {"done", "raised"}
              /\ task_pc[b] = "done" =>
                    /\ requests[b] = 1
                    /\ ResultsOf(b) = batch_results[b]
                    /\ Len(batch_results[b]) = Len(Batches(users)[b])

\* A returned run with a request failure, an entry-construction failure and
\* a reconciled batch.
C4_Witness ==
    /\ import_pc = "returned"
    /\ \E b1, b2, b3 \in DOMAIN task_pc :
          /\ RequestFailed(b1)
          /\ task_pc[b2] = "raised"
          /\ replies[b3].kind = "ok"
          /\ \A i \in 1..Len(batch_results[b3]) : batch_results[b3][i].status = "created"
          /\ Len(ResultsOf(b3)) = batch_size

\* The note import_batch attaches to the results of a failed request.
FailureNote(reply) ==
    IF reply.kind = "http_error" THEN <<"HTTP", reply.error>>
    ELSE <<"Request failed", reply.error>>

\* C5: once the request of a batch has failed, every record of the batch has
\* an ImportResult with status ERROR and all of them carry the one note that
\* describes the failure; import_users returns them as they are.
C5_FailedBatchAllError ==
    \A b \in DOMAIN task_pc :
        (task_pc[b] = "done" /\ RequestFailed(b)) =>
            /\ Len(batch_results[b]) = Len(Batches(users)[b])
            /\ \A i \in 1..Len(batch_results[b]) :
                  /\ batch_results[b][i].source_id = Batches(users)[b][i].id
                  /\ batch_results[b][i].status = "error"
                  /\ batch_results[b][i].note = FailureNote(replies[b])
            /\ import_pc = "returned" => ResultsOf(b) = batch_results[b]

\* Both kinds of failure in one run, each on a full batch.
C5_Witness ==
    /\ import_pc = "returned"
    /\ \E b1, b2 \in DOMAIN task_pc :
          /\ replies[b1].kind = "transport_error"
          /\ replies[b2].kind = "http_error"
          /\ Len(batch_results[b1]) = batch_size
          /\ Len(batch_results[b2]) = batch_size

\* The batch of task b.
BatchOf(b) == Batches(users)[b]

\* The detail list the answer to batch b carries (empty when omitted).
ReturnedDetails(b) ==
    IF "details" \in DOMAIN replies[b].data THEN replies[b].data.details.items ELSE <<>>

\* The answer to batch b is a 2xx response that import_batch reconciled: the
\* body parsed, the detail list is a list or omitted, and every entry that
\* belongs to a record is an object.
Reconciled(b) ==
    /\ task_pc[b] = "done"
    /\ replies[b].kind = "ok"
    /\ "details" \in DOMAIN replies[b].data => replies[b].data.details.type = "list"
    /\ \A i \in 1..Len(BatchOf(b)) :
          i <= Len(ReturnedDetails(b)) => ReturnedDetails(b)[i].type = "object"

\* C11: on a reconciled response, every record at a position past the end of
\* the returned detail list (every record when the list is omitted) has an
\* ImportResult with status CREATED and an empty note.
C11_MissingDetailDefaults ==
    \A b \in DOMAIN task_pc :
        Reconciled(b) =>
            \A i \in 1..Len(BatchOf(b)) :
                i > Len(ReturnedDetails(b)) =>
                    /\ batch_results[b][i].status = "created"
                    /\ batch_results[b][i].note = <<>>

\* Two records, one detail with status skipped: the second record defaults.
C11_Witness ==
    /\ Reconciled(1)
    /\ Len(BatchOf(1)) = 2
    /\ Len(ReturnedDetails(1)) = 1
    /\ batch_results[1][1].status = "skipped"
    /\ batch_results[1][1].note # <<>>
    /\ batch_results[1][2].status = "created"

\* C12: whatever the answer, import_batch returns one ImportResult per record
\* of the batch and the i-th result carries the id of the i-th record.
C12_OneResultPerRecord ==
    \A b \in DOMAIN task_pc :
        task_pc[b] = "done" =>
            /\ Len(batch_results[b]) = Len(BatchOf(b))
            /\ \A i \in 1..Len(BatchOf(b)) :
                  batch_results[b][i].source_id = BatchOf(b)[i].id

\* A reconciled response with fewer details than records.
C12_Witness ==
    /\ Reconciled(1)
    /\ Len(BatchOf(1)) = 2
    /\ Len(ReturnedDetails(1)) = 1
    /\ batch_results[1][2].source_id = 2

\* The ImportStatus the claim assigns to each status string of the target.
StatusTable ==
    [created |-> "created", imported |-> "created", existing |-> "existing",
     skipped |-> "skipped", updated |-> "updated", error |-> "error"]

\* C20: on a reconciled response, a record whose detail entry reports status
\* s gets created for created and imported, existing, skipped, updated and
\* error for themselves, and created for any other string.
C20_StatusMapping ==
    \A b \in DOMAIN task_pc :
        Reconciled(b) =>
            \A i \in 1..Len(BatchOf(b)) :
                (i <= Len(ReturnedDetails(b))
                   /\ "status" \in DOMAIN ReturnedDetails(b)[i].fields) =>
                    LET st == ReturnedDetails(b)[i].fields.status
                    IN  batch_results[b][i].status =
                            IF st \in DOMAIN StatusTable THEN StatusTable[st] ELSE "created"

\* An unknown status next to a known one.
C20_Witness ==
    /\ Reconciled(1)
    /\ Len(BatchOf(1)) = 2
    /\ Len(ReturnedDetails(1)) = 2
    /\ "status" \in DOMAIN ReturnedDetails(1)[1].fields
    /\ ReturnedDetails(1)[1].fields.status = "queued"
    /\ batch_results[1][1].status = "created"
    /\ batch_results[1][2].status = "existing"

RECURSIVE Flatten(_)
Flatten(seqs) == IF Len(seqs) = 0 THEN <<>> ELSE Head(seqs) \o Flatten(Tail(seqs))

\* C13: the batches of import_users are contiguous slices of batch_size
\* records, only the last one possibly shorter and none empty; put end to end
\* they give the input list back; there is one task per batch and a batch is
\* POSTed in at most one request.
C13_Partition ==
    LET bs == Batches(users)
    IN  /\ Flatten(bs) = users
        /\ \A k \in DOMAIN bs :
              /\ Len(bs[k]) >= 1
              /\ Len(bs[k]) <= batch_size
              /\ k < Len(bs) => Len(bs[k]) = batch_size
        /\ import_pc \in {"gathering", "returned"} =>
              /\ Len(task_pc) = Len(bs)
              /\ \A b \in DOMAIN task_pc : requests[b] <= 1

\* Five records: two full batches and a last one of one record, all POSTed.
C13_Witness ==
    /\ import_pc = "returned"
    /\ Len(users) = 5
    /\ Len(task_pc) = 3
    /\ Len(Batches(users)[3]) = 1
    /\ \A b \in DOMAIN task_pc : requests[b] = 1

\* C15: when import_users is called on an open client with a worker bound of
\* at least 1, eventually import_users has returned, every batch has passed
\* the gate and run to completion or failure, and every permit is back.
C15_EventuallyReturns ==
    (client /\ workers >= 1) =>
        <>(/\ import_pc = "returned"
           /\ semaphore = workers
           /\ Len(task_pc) = NumBatches(users)
           /\ \A b \in DOMAIN task_pc :
                 \/ task_pc[b] = "done" /\ requests[b] = 1
                 \/ task_pc[b] = "raised")

\* Three batches behind one permit, one failed, one reconciled, all done.
C15_Witness ==
    /\ import_pc = "returned"
    /\ workers = 1
    /\ semaphore = 1
    /\ Len(task_pc) = 3
    /\ \E b1, b2 \in DOMAIN task_pc :
          /\ replies[b1].kind = "transport_error"
          /\ replies[b2].kind = "ok"

\* What batch b adds to the counters when it runs alone.
Contribution(b) == import_batch(ImportStats, Batches(users)[b], replies[b]).stats

RECURSIVE SumContributions(_, _)
SumContributions(counter, b) ==
    IF b = 0 THEN 0
    ELSE SumContributions(counter, b - 1)
         + (IF task_pc[b] = "done" THEN Contribution(b)[counter] ELSE 0)

\* C14: between the first and the last counter write of one batch's update
\* the batch's task holds the event loop, so neither a suspension nor a write
\* of another batch falls in between; and whenever the loop is idle the
\* counters are the sum of what each finished batch adds on its own, so no
\* increment is lost.
C14_AtomicUpdate ==
    /\ \A b \in DOMAIN writes :
          (writes[b].done > 0 /\ writes[b].todo # <<>>) => running = b
    /\ (import_pc \in {"gathering", "returned"} /\ running = 0) =>
          \A counter \in DOMAIN ImportStats :
             import_stats[counter] = SumContributions(counter, Len(task_pc))

\* A batch is between two of its counter writes while another batch, already
\* posted, is in flight and a third has finished.
C14_Witness ==
    /\ import_pc = "gathering"
    /\ \E b, b2, b3 \in DOMAIN task_pc :
          /\ running = b
          /\ b \in DOMAIN writes
          /\ writes[b].done > 0
          /\ writes[b].todo # <<>>
          /\ task_pc[b2] = "posting"
          /\ b2 \notin DOMAIN writes
          /\ task_pc[b3] = "done"
          /\ import_stats.total > 0

\* C16: after any sequence of add_check, add_missing and add_mismatch calls
\* the report fails exactly when some check's expected and actual values
\* differ, or a missing user is recorded, or a mismatch is recorded.
C16_PassedIff ==
    ~passed(report) <=>
        \/ \E i \in DOMAIN report.checks :
              report.checks[i].expected # report.checks[i].actual
        \/ Len(report.missing_users) > 0
        \/ Len(report.mismatches) > 0

\* Two checks that pass and one mismatch: the report fails on the mismatch
\* alone.
C16_Witness ==
    /\ verify_pc = "idle"
    /\ Len(report.checks) = 2
    /\ \A i \in DOMAIN report.checks : report.checks[i].expected = report.checks[i].actual
    /\ report.missing_users = <<>>
    /\ Len(report.mismatches) = 1
    /\ ~passed(report)

\* Number of entries of a report list that carry the user id.
Occurrences(list, user_id) ==
    Cardinality({i \in DOMAIN list : list[i].user_id = user_id})

\* The email the target holds for a record it returned.
TargetEmail(reply) == IF "email" \in DOMAIN reply.data THEN reply.data.email ELSE None

\* C17: of the sampled records looked up so far, one the target answered 404
\* for is in missing_users once and not in mismatches; one the target
\* returned with an email that is not the very string of the source is in
\* mismatches once, under field "email", and not in missing_users; one
\* returned with the same email is in neither list.
C17_Classification ==
    \A j \in DOMAIN lookups :
        LET user_id == str(sample_users[j].id)
            email == sample_users[j].email
            missing == Occurrences(report.missing_users, user_id)
            mismatch == Occurrences(report.mismatches, user_id)
        IN  /\ lookups[j].kind = "not_found" => missing = 1 /\ mismatch = 0
            /\ (lookups[j].kind = "ok" /\ TargetEmail(lookups[j]) # email) =>
                  /\ missing = 0
                  /\ mismatch = 1
                  /\ \A i \in DOMAIN report.mismatches :
                        report.mismatches[i].user_id = user_id =>
                            /\ report.mismatches[i].field = "email"
                            /\ report.mismatches[i].expected = email
            /\ (lookups[j].kind = "ok" /\ TargetEmail(lookups[j]) = email) =>
                  missing = 0 /\ mismatch = 0

\* verify has returned; one sampled record was absent, the other present
\* with an email that differs from the source's only in case.
C17_Witness ==
    /\ verify_pc = "returned"
    /\ Len(lookups) = 2
    /\ \E j, k \in DOMAIN lookups :
          /\ lookups[j].kind = "not_found"
          /\ lookups[k].kind = "ok"
          /\ sample_users[k].email = <<"a">>
          /\ TargetEmail(lookups[k]) = <<"A">>

LookupFailed(reply) == reply.kind \in {"transport_error", "http_error", "invalid_json"}

\* C18: a sampled record whose lookup failed is in missing_users once and
\* not in mismatches; verify, called on an open verifier, never raises; and
\* when it returns every sampled record has been looked up.
C18_LookupFailureIsMissing ==
    /\ \A j \in DOMAIN lookups :
          LookupFailed(lookups[j]) =>
              /\ Occurrences(report.missing_users, str(sample_users[j].id)) = 1
              /\ Occurrences(report.mismatches, str(sample_users[j].id)) = 0
    /\ verify_pc = "raised" => ~verifier_client
    /\ verify_pc = "returned" => Len(lookups) = Len(sample_users)

\* verify has returned after a failed lookup of the first sampled record
\* and a successful one of the second.
C18_Witness ==
    /\ verify_pc = "returned"
    /\ Len(lookups) = 2
    /\ lookups[1].kind = "transport_error"
    /\ lookups[2].kind = "ok"
    /\ Len(report.missing_users) = 1

\* C19: with a key selector that is not supported, deduplicate fails before
\* it processes a record: nothing is counted, nothing is kept or returned,
\* and the call does not return normally.
C19_UnsupportedKeyFailsFast ==
    config.key \notin SupportedKeys =>
        /\ dedup_stats = DedupStats
        /\ unique_users = <<>>
        /\ deduplicated = <<>>
        /\ dedup_pc # "returned"

\* C21: under strategy NONE nothing is keyed, kept aside, skipped or logged
\* at any time, and once deduplicate has returned its output is the input
\* sequence, record for record, with total = unique = its length.
C21_NonePassthrough ==
    config.strategy = "none" =>
        /\ seen = <<>>
        /\ unique_users = <<>>
        /\ conflicts = <<>>
        /\ dedup_pc # "raised"
        /\ dedup_stats.duplicates = 0
        /\ dedup_stats.skipped_no_key = 0
        /\ dedup_pc = "returned" =>
              /\ deduplicated = users_list
              /\ dedup_stats.total = Len(users_list)
              /\ dedup_stats.unique = Len(users_list)

\* A passthrough of three records has returned; two of them share a key and
\* one has none.
C21_Witness ==
    /\ config.strategy = "none"
    /\ config.key = "email"
    /\ dedup_pc = "returned"
    /\ Len(deduplicated) = 3
    /\ ~NoDuplicateKeys(deduplicated)
    /\ \E i \in 1..3 : KeyOf(deduplicated[i]) = None

\* The record the step hands to the loop body, when the step pulls one.
Pulled == users_list'[Len(users_list')]

PullsRecord == Len(users_list') = Len(users_list) + 1

\* C22: under a strategy other than NONE, a step that handles a record
\* without key adds one to skipped_no_key (and to total) and leaves the
\* output, the seen-key map, unique, duplicates and the conflict log as they
\* were; it raises nothing, also under ERROR.
C22_SkipNoKeyFrame ==
    [][(config.strategy # "none" /\ PullsRecord /\ KeyOf(Pulled) = None) =>
          /\ dedup_stats'.skipped_no_key = dedup_stats.skipped_no_key + 1
          /\ dedup_stats'.total = dedup_stats.total + 1
          /\ dedup_stats'.unique = dedup_stats.unique
          /\ dedup_stats'.duplicates = dedup_stats.duplicates
          /\ unique_users' = unique_users
          /\ seen' = seen
          /\ conflicts' = conflicts
          /\ dedup_pc' = "running"
          /\ dedup_error' = NoError]_vars

\* Under ERROR a record without key was dropped after a conflict-free
\* record had been kept, and the run goes on.
C22_Witness ==
    /\ config.strategy = "error"
    /\ config.key \in SupportedKeys
    /\ dedup_pc = "running"
    /\ dedup_stats.skipped_no_key = 1
    /\ Len(users_list) = 2
    /\ KeyOf(users_list[2]) = None
    /\ Len(unique_users) = 1

\* What _should_replace is specified to answer.
NewerThanCanonical(new_user, existing_user) ==
    /\ new_user.created_at # NoTimestamp
    /\ \/ existing_user.created_at = NoTimestamp
       \/ new_user.created_at > existing_user.created_at

\* C25: under KEEP_LATEST a step that handles a duplicate puts the new
\* record in the canonical's place exactly when the new record has a
\* timestamp and the canonical has none or an earlier one; otherwise the
\* seen-key map and the output stay as they were.
C25_ReplaceIffNewer ==
    [][(config.strategy = "keep_latest" /\ PullsRecord /\ KeyOf(Pulled) # None
            /\ KeyOf(Pulled) \in DOMAIN seen) =>
          LET key == KeyOf(Pulled)
              existing == seen[key]
          IN  IF NewerThanCanonical(Pulled, existing)
              THEN /\ seen' = [seen EXCEPT ![key] = Pulled]
                   /\ Len(unique_users') = Len(unique_users)
                   /\ \A i \in DOMAIN unique_users :
                         unique_users'[i] =
                            IF unique_users[i].id = existing.id THEN Pulled
                            ELSE unique_users[i]
              ELSE /\ seen' = seen
                   /\ unique_users' = unique_users]_vars

\* KEEP_LATEST has met a duplicate with the canonical's own timestamp, which
\* stayed out, and a duplicate with a later one, which went in.
C25_Witness ==
    /\ config.strategy = "keep_latest"
    /\ Len(conflicts) = 2
    /\ conflicts[1].duplicate.created_at = conflicts[1].existing.created_at
    /\ conflicts[1].duplicate.created_at # NoTimestamp
    /\ conflicts[2].existing.id = conflicts[1].existing.id
    /\ conflicts[2].duplicate.created_at > conflicts[2].existing.created_at
    /\ Len(unique_users) = 1
    /\ unique_users[1].id = conflicts[2].duplicate.id

\* Fields the key selector reads.
Contributing(key) ==
    IF key = "email" THEN {"email"}
    ELSE IF key = "phone" THEN {"phone"}
    ELSE IF key = "username" THEN {"username"}
    ELSE IF key = "email_or_phone" THEN {"email", "phone"}
    ELSE {"username", "email"}

\* The field holds something after trimming.
Present(value) == value # None /\ Strip(value) # <<>>

\* The value without its letter case and outer whitespace.
Normalized(value) == IF value = None THEN None ELSE Strip(Lower(value))

\* Two records whose contributing fields are the same up to letter case and
\* outer whitespace, none of them blank and at least one of them present.
Alike(u, v) ==
    /\ \A f \in Contributing(config.key) :
          /\ Normalized(u[f]) = Normalized(v[f])
          /\ u[f] = None \/ Present(u[f])
          /\ v[f] = None \/ Present(v[f])
    /\ \E f \in Contributing(config.key) : Present(u[f])

\* C23: under every supported selector, two records of the stream whose
\* contributing fields differ only in letter case or outer whitespace have
\* the same key.
C23_CaseAndSpaceInsensitive ==
    config.key \in SupportedKeys =>
        \A i, j \in 1..Len(users_list) :
            Alike(users_list[i], users_list[j]) =>
                /\ KeyOf(users_list[i]) # None
                /\ KeyOf(users_list[i]) = KeyOf(users_list[j])

\* C24: under every supported selector a record whose contributing fields
\* are all empty after trimming has no key; under an "or" selector a blank
\* first field gives way to a present second one; and the empty string is
\* never the key of a logged conflict.
C24_BlankIsAbsent ==
    config.key \in SupportedKeys =>
        /\ \A i \in 1..Len(users_list) :
              LET u == users_list[i]
              IN  /\ (\A f \in Contributing(config.key) : ~Present(u[f])) =>
                        KeyOf(u) = None
                  /\ (\E f \in Contributing(config.key) : Present(u[f])) =>
                        KeyOf(u) \notin {None, <<>>}
        /\ \A c \in DOMAIN conflicts : conflicts[c].key # <<>>

\* The total a count answer reports, for answers that report one.
ReportsTotal(reply) == reply.kind = "ok" /\ "total" \in DOMAIN reply.data

\* The check verify recorded at position i is named `name`, expects the
\* source row count, holds the total answer i reported, and passes exactly
\* on equality.
CountCheck(i, name) ==
    /\ report.checks[i].name = name
    /\ report.checks[i].expected = Len(source_rows)
    /\ ReportsTotal(count_replies[i]) =>
          report.checks[i].actual = count_replies[i].data.total
    /\ report.checks[i].passed <=> (report.checks[i].expected = report.checks[i].actual)

\* C26: after the first count verify holds the user count check alone, after
\* the second the app profile count check behind it; each expects the source
\* row count, holds the total its own endpoint reported and passes only on
\* equality.
C26_CountChecks ==
    /\ verify_pc = "called" => report.checks = <<>>
    /\ verify_pc = "counted" =>
          /\ Len(report.checks) = 1
          /\ CountCheck(1, "User count")
    /\ verify_pc \in {"sampling", "returned"} =>
          /\ Len(report.checks) = 2
          /\ CountCheck(1, "User count")
          /\ CountCheck(2, "App profiles count")

\* verify has returned for a source of two rows: the target reported three
\* users, which fails the first check, and two profiles, which passes the
\* second.
C26_Witness ==
    /\ verify_pc = "returned"
    /\ Len(source_rows) = 2
    /\ ReportsTotal(count_replies[1])
    /\ report.checks[1].actual = 3
    /\ ~report.checks[1].passed
    /\ ReportsTotal(count_replies[2])
    /\ report.checks[2].actual = 2
    /\ report.checks[2].passed

\* C27: no batch is ever POSTed a second time; a batch whose request is in
\* flight or answered, with success or with failure, has been POSTed exactly
\* once, and an answered batch is over.
C27_NoRetry ==
    \A b \in DOMAIN task_pc :
        /\ requests[b] <= 1
        /\ task_pc[b] \in {"posting", "done"} => requests[b] = 1
        /\ replies[b] # NoReply => (requests[b] = 1 /\ task_pc[b] = "done")
        /\ import_pc = "returned" => (task_pc[b] = "raised" \/ requests[b] = 1)

\* import_users has returned from three batches: one request failed at the
\* transport, one was refused by the target, one was accepted.
C27_Witness ==
    /\ import_pc = "returned"
    /\ Len(task_pc) = 3
    /\ \E b1, b2, b3 \in DOMAIN task_pc :
          /\ replies[b1].kind = "transport_error"
          /\ replies[b2].kind = "http_error"
          /\ replies[b3].kind = "ok"
          /\ requests[b1] = 1
          /\ requests[b2] = 1
          /\ import_stats.errors >= 2

\* C30: no step of deduplicate, import_batch or import_users lowers a field
\* of DedupStats or of ImportStats.
C30_CountersNeverDecrease ==
    [][/\ \A f \in DOMAIN DedupStats : dedup_stats'[f] >= dedup_stats[f]
       /\ \A f \in DOMAIN ImportStats : import_stats'[f] >= import_stats[f]]_vars

\* import_users has returned after a batch that was accepted, a batch that
\* failed and a batch whose task raised: created and errors have both grown,
\* the latter in import_batch and in the fold of the gather.
C30_Witness ==
    /\ import_pc = "returned"
    /\ Len(task_pc) = 3
    /\ \E b1, b2, b3 \in DOMAIN task_pc :
          /\ task_pc[b1] = "raised"
          /\ replies[b2].kind = "http_error"
          /\ replies[b3].kind = "ok"
    /\ import_stats.created >= 1
    /\ import_stats.errors >= 3
    /\ dedup_stats.total = Len(users)

\* C28: the run calls deduplicate at most once; import_users is called only
\* after that one call has returned, with the very list it returned; every
\* record of that list is one record of the export, and none is handed over
\* twice; no request is made before.
C28_DedupOnceBeforeImport ==
    /\ dedup_calls <= 1
    /\ import_pc # "idle" =>
          /\ dedup_calls = 1
          /\ dedup_pc = "returned"
          /\ users = deduplicated
          /\ \A i \in DOMAIN users :
                /\ Cardinality({j \in DOMAIN users_list : users_list[j].id = users[i].id}) = 1
                /\ Cardinality({j \in DOMAIN users : users[j].id = users[i].id}) = 1
    /\ dedup_pc # "returned" => \A b \in DOMAIN requests : requests[b] = 0

\* import_users has been called with the two records KEEP_LATEST kept out of
\* an export of three.
C28_Witness ==
    /\ migrate_pc = "importing"
    /\ import_pc = "called"
    /\ config.strategy = "keep_latest"
    /\ Len(users_list) = 3
    /\ Len(users) = 2
    /\ dedup_stats.duplicates = 1

\* C29: once deduplicate has raised on a duplicate key, which it does under
\* ERROR only, import_users is never called, no request is made, neither
\* the verify nor the shadow step is entered, and the run does not finish
\* normally.
C29_DuplicateKeyAborts ==
    dedup_pc = "raised" =>
        /\ config.strategy = "error"
        /\ import_pc = "idle"
        /\ requests = <<>>
        /\ verify_pc = "idle"
        /\ steps_run = <<"import">>
        /\ ~migration_report.shadow
        /\ migrate_pc \in {"dedup", "failed"}

\* A run of all steps has ended in failure on a duplicate key.
C29_Witness ==
    /\ step = "all"
    /\ shadow_enabled
    /\ ~dry_run
    /\ dedup_pc = "raised"
    /\ dedup_error.key = <<"a">>
    /\ migrate_pc = "failed"
    /\ migration_report.errors = <<"DuplicateUserError">>

\* C31: deduplicate has raised exactly when the strategy is ERROR and the
\* input consumed so far holds two records with one key; under the other
\* strategies it never raises and no error is set.
C31_RaisesIffErrorAndDuplicate ==
    /\ dedup_pc = "raised" <=> (config.strategy = "error" /\ DuplicatePositions # {})
    /\ config.strategy # "error" => dedup_error = NoError

\* KEEP_FIRST has returned a list from an input in which the second and the
\* third record repeat the key of the first.
C31_Witness ==
    /\ config.strategy = "keep_first"
    /\ dedup_pc = "returned"
    /\ DuplicatePositions = {2, 3}
    /\ Len(deduplicated) = 1

\* Positions of the duplicates of the input, in input order.
RECURSIVE DuplicateSeq(_)
DuplicateSeq(n) ==
    IF n = 0 THEN <<>>
    ELSE IF n \in DuplicatePositions THEN Append(DuplicateSeq(n - 1), n)
    ELSE DuplicateSeq(n - 1)

\* C32: under a strategy that keys records, the conflict log has one entry
\* per duplicate counted, the k-th entry holds the k-th duplicate of the
\* input; a step either leaves the log alone or appends one entry that holds
\* the key of the record handled, the record that was canonical for the key
\* before the step, and the record handled, and it appends exactly when the
\* key was already seen, also on the step that raises under ERROR.
C32_ConflictLog ==
    /\ [](/\ Len(conflicts) = dedup_stats.duplicates
          /\ config.strategy # "none" =>
                /\ Len(conflicts) = Len(DuplicateSeq(Len(users_list)))
                /\ \A k \in DOMAIN conflicts :
                      conflicts[k].duplicate = users_list[DuplicateSeq(Len(users_list))[k]])
    /\ [][/\ \/ conflicts' = conflicts
             \/ /\ Len(conflicts') = Len(conflicts) + 1
                /\ SubSeq(conflicts', 1, Len(conflicts)) = conflicts
          /\ (config.strategy # "none" /\ PullsRecord) =>
                IF KeyOf(Pulled) # None /\ KeyOf(Pulled) \in DOMAIN seen
                THEN conflicts' = Append(conflicts,
                        [key |-> KeyOf(Pulled), existing |-> seen[KeyOf(Pulled)],
                         duplicate |-> Pulled])
                ELSE conflicts' = conflicts
          /\ dedup_pc' = "raised" => Len(conflicts') = Len(conflicts) + 1]_vars

\* KEEP_LATEST has logged two conflicts on one key; the first replaced the
\* canonical record, so the second entry holds the replacement, not the
\* first-seen record.
C32_Witness ==
    /\ config.strategy = "keep_latest"
    /\ Len(conflicts) = 2
    /\ conflicts[1].key = conflicts[2].key
    /\ conflicts[1].existing.id = 1
    /\ conflicts[2].existing.id = 2
    /\ conflicts[2].duplicate.id = 3

\* The key the record gets under a selector that reads one field.
KeyUnder(selector, u) == _extract_key([key |-> selector, strategy |-> config.strategy], u)

\* C33: under email_or_phone a record with an email has the key of its
\* email and any other record the key of its phone; under username_or_email
\* a record with a username has the key of its username and any other
\* record the key of its email; under both a record without key has neither
\* field.
C33_OrSelectorPrecedence ==
    \A i \in 1..Len(users_list) :
        LET u == users_list[i]
        IN  /\ config.key = "email_or_phone" =>
                  /\ Present(u.email) => KeyOf(u) = Strip(Lower(u.email))
                  /\ ~Present(u.email) => KeyOf(u) = KeyUnder("phone", u)
                  /\ KeyOf(u) = None => (~Present(u.email) /\ ~Present(u.phone))
            /\ config.key = "username_or_email" =>
                  /\ Present(u.username) => KeyOf(u) = Strip(Lower(u.username))
                  /\ ~Present(u.username) => KeyOf(u) = KeyUnder("email", u)
                  /\ KeyOf(u) = None => (~Present(u.username) /\ ~Present(u.email))

\* Under email_or_phone the input holds a record with both fields, a record
\* with a phone only and a record with neither.
C33_Witness ==
    /\ config.key = "email_or_phone"
    /\ config.strategy = "keep_first"
    /\ Len(users_list) = 3
    /\ Present(users_list[1].email) /\ Present(users_list[1].phone)
    /\ users_list[2].email = None /\ Present(users_list[2].phone)
    /\ users_list[3].email = None /\ users_list[3].phone = None
    /\ dedup_stats.skipped_no_key = 1

\* The count the answer to batch b reports under `name`, 0 when omitted.
Reported(b, name) ==
    IF name \in DOMAIN replies[b].data THEN replies[b].data[name] ELSE 0

\* C34: after a batch whose request succeeded and whose answer was
\* reconciled, total has grown by the batch size, created, skipped, updated
\* and errors by the imported, skipped, updated and errors counts of the
\* answer (0 when omitted), and existing not at all.
C34_SuccessCounters ==
    \A b \in DOMAIN task_pc :
        Reconciled(b) =>
            /\ import_stats.total = Len(BatchOf(b))
            /\ import_stats.created = Reported(b, "imported")
            /\ import_stats.skipped = Reported(b, "skipped")
            /\ import_stats.updated = Reported(b, "updated")
            /\ import_stats.errors = Reported(b, "errors")
            /\ import_stats.existing = 0

\* A batch of two was accepted with the answer imported = 1, skipped = 1,
\* updated = 1, errors = 1 and a detail list that reports both records as
\* existing.
C34_Witness ==
    /\ Reconciled(1)
    /\ Len(BatchOf(1)) = 2
    /\ Reported(1, "imported") = 1
    /\ Reported(1, "errors") = 1
    /\ Len(batch_results[1]) = 2
    /\ \A i \in 1..2 : batch_results[1][i].status = "existing"
    /\ import_stats.existing = 0

\* C35: once import_users has returned, total is the number of records it
\* was given.
C35_TotalCountsEveryRecord ==
    import_pc = "returned" => import_stats.total = Len(users)

\* C36: once import_users has returned, it has returned one result per
\* record it was given, and the k-th result carries the id of the k-th
\* record.
C36_OneResultPerInputRecord ==
    import_pc = "returned" =>
        /\ Len(results) = Len(users)
        /\ \A k \in 1..Len(results) : k <= Len(users) => results[k].source_id = users[k].id

\* C37: once import_users has returned, the counts the report derives from
\* the result list are the importer's running counters.
C37_ReportEqualsRunningCounters ==
    import_pc = "returned" => ReportedImportStats(results) = import_stats

\* C38: once the import step has placed the dedup counts in the report,
\* they are the counters the deduplicator accumulated.
C38_ReportEqualsDedupStats ==
    (dedup_pc = "returned" /\ migrate_pc \notin {"start", "dedup"}) =>
        migration_report.dedup_stats = dedup_stats

C40_FailedCountNeverPasses ==
    /\ verify_pc = "raised" => ~verifier_client
    /\ \A i \in DOMAIN report.checks :
          (i <= Len(count_replies) /\ count_replies[i].kind # "ok") =>
              /\ ~report.checks[i].passed
              /\ ~passed(report)

====
